---- MODULE Spec2Model ----
(***************************************************************************)
(* Verification model of two Azure CLI extensions:                         *)
(*   - k8s-extension/partner_extensions/AzureMLKubernetes.py               *)
(*     (Create, its configuration validation, resource provisioning,       *)
(*     _get_valid_name, _dereference)                                      *)
(*   - alertsmanagement/generated/action.py                                *)
(*     (AddConditions, AddActions, AddRecurrences)                         *)
(*                                                                         *)
(* Python values are modelled as strings.  The three non-string values the *)
(* code puts into the maps (None, True, False) are the distinguished       *)
(* strings None, PyTrue and PyFalse, which no caller-supplied value equals.*)
(***************************************************************************)
EXTENDS Integers, Sequences, FiniteSets, TLC

VARIABLES
    pc,        \* position of the Create call
    scope,     \* the scope argument of Create
    cs,        \* configuration_settings: the caller's dict, mutated in place
    cps,       \* configuration_protected_settings: the caller's dict
    cs0,       \* configuration_settings as passed in
    cps0,      \* configuration_protected_settings as passed in
    loc,       \* cluster_location
    calls,     \* the remote calls made so far, in order
    err,       \* the exception Create raised, or NoError
    manifest,  \* the Extension returned by Create, or NoManifest
    name_in,      \* _get_valid_name: the input_name argument
    name_max,     \* _get_valid_name: the max_len argument
    name_out,     \* _get_valid_name: what the call returned or raised
    deref_in,     \* _dereference: the output_dict argument
    deref_out,    \* _dereference: what the call returned
    namespace,    \* argparse: the lists accumulated under the three dests
    last_call,    \* argparse: the number, flag and option string of the last invocation,
                  \* whether one of its tokens has no '=', and whether one of its
                  \* tokens has a key outside the keys of the parser
    parse_err,    \* argparse: the CLIError the last invocation raised, or NoError
    parsed,       \* the records the successful invocations produced, in order
    group_in,     \* AddConditions.get_action: the values argument
    group_out,    \* AddConditions.get_action: what the call returned or raised
    upc,          \* position of the Update call
    ucs,          \* Update: configuration_settings, mutated in place
    ucps,         \* Update: configuration_protected_settings
    ucs0,         \* Update: configuration_settings as passed in
    ucps0,        \* Update: configuration_protected_settings as passed in
    yes,          \* Update: the yes argument
    prompts,      \* Update: the calls of user_confirmation_factory, in order
    ucalls,       \* Update: the remote calls made so far, in order, a call that
                  \* fails followed by its response
    uerr,         \* Update: the exception raised, or NoError
    patch,        \* Update: the PatchExtension returned, or NoManifest
    sb_pc,        \* _get_service_bus_connection_string: position of the call
    sb_args,      \* its arguments topic_sub_mapping, as the list of its items, and get_key_only
    sb_trace,     \* the calls it made on the client and on the poller, in order
    sb_op,        \* the state of the remote create-or-update of the namespace
    sb_i,         \* the index of the item of topic_sub_mapping the loop is at
    sb_out        \* what the call returned or raised

createVars == <<pc, scope, cs, cps, cs0, cps0, loc, calls, err, manifest>>
nameVars   == <<name_in, name_max, name_out>>
derefVars  == <<deref_in, deref_out>>
parseVars  == <<namespace, last_call, parse_err, parsed, group_in, group_out>>
updateVars == <<upc, ucs, ucps, ucs0, ucps0, yes, prompts, ucalls, uerr, patch>>
sbVars     == <<sb_pc, sb_args, sb_trace, sb_op, sb_i, sb_out>>
vars       == <<createVars, nameVars, derefVars, parseVars, updateVars, sbVars>>

----------------------------------------------------------------------------
(* Python values *)

None    == "<None>"
PyTrue  == "<True>"
PyFalse == "<False>"

\* str(v)
Str(v) ==
    CASE v = None    -> "None"
      [] v = PyTrue  -> "True"
      [] v = PyFalse -> "False"
      [] OTHER       -> v

\* s.lower(), on the strings of the model
Lower(s) ==
    CASE s = "True"  -> "true"
      [] s = "TRUE"  -> "true"
      [] s = "False" -> "false"
      [] s = "FALSE" -> "false"
      [] s = "None"  -> "none"
      [] OTHER       -> s

\* bool(v)
Truthy(v) == v \notin {None, "", PyFalse}

\* a Python bool as a value of the model
PyBool(b) == IF b THEN PyTrue ELSE PyFalse

\* str(v).lower() == 'true'
IsTrueStr(v) == Lower(Str(v)) = "true"

\* str(v).lower() == 'false'
IsFalseStr(v) == Lower(Str(v)) = "false"

----------------------------------------------------------------------------
(* dicts: functions from a finite set of keys *)

EmptyDict == [k \in {} |-> None]

\* d.get(k)
Get(d, k) == IF k \in DOMAIN d THEN d[k] ELSE None

\* d.get(k, default)
GetOr(d, k, default) == IF k \in DOMAIN d THEN d[k] ELSE default

\* d[k] = v
Put(d, k, v) == [x \in (DOMAIN d) \cup {k} |-> IF x = k THEN v ELSE d[x]]

\* d.pop(k, None)
Pop(d, k) == [x \in (DOMAIN d) \ {k} |-> d[x]]

\* _get_value_from_config_protected_config
_get_value_from_config_protected_config(key, config, protected_config) ==
    IF key \in DOMAIN config THEN config[key] ELSE Get(protected_config, key)

----------------------------------------------------------------------------
(* AzureMLKubernetes.__init__: the configuration keys *)

RELAY_CONNECTION_STRING_KEY           == "relayserver.relayConnectionString"
HC_RESOURCE_ID_KEY                    == "relayserver.hybridConnectionResourceID"
RELAY_HC_NAME_KEY                     == "relayserver.hybridConnectionName"
SERVICE_BUS_CONNECTION_STRING_KEY     == "servicebus.connectionString"
SERVICE_BUS_RESOURCE_ID_KEY           == "servicebus.resourceID"
SERVICE_BUS_COMPUTE_STATE_MAPPING_KEY == "servicebus.topicSubMapping.computestate-updatedby-computeprovider"
SERVICE_BUS_JOB_STATE_MAPPING_KEY     == "servicebus.topicSubMapping.jobstate-updatedby-computeprovider"
AZURE_LOG_ANALYTICS_ENABLED_KEY       == "azure_log_analytics.enabled"
AZURE_LOG_ANALYTICS_CUSTOMER_ID_KEY   == "azure_log_analytics.customer_id"
AZURE_LOG_ANALYTICS_CONNECTION_STRING == "azure_log_analytics.connection_string"
JOB_SCHEDULER_LOCATION_KEY            == "jobSchedulerLocation"
CLUSTER_NAME_FRIENDLY_KEY             == "cluster_name_friendly"
ENABLE_TRAINING                       == "enableTraining"
ENABLE_INFERENCE                      == "enableInference"
RELAY_SERVER_CONNECTION_STRING        == "relayServerConnectionString"
SERVICE_BUS_CONNECTION_STRING         == "serviceBusConnectionString"
LOG_ANALYTICS_WS_ENABLED              == "logAnalyticsWS"
SERVICE_BUS_COMPUTE_STATE_SUB         == "compute-scheduler-computestate"
SERVICE_BUS_JOB_STATE_SUB             == "compute-scheduler-jobstate"
sslKeyPemFile                         == "sslKeyPemFile"
sslCertPemFile                        == "sslCertPemFile"
allowInsecureConnections              == "allowInsecureConnections"
privateEndpointILB                    == "privateEndpointILB"
privateEndpointNodeport               == "privateEndpointNodeport"
inferenceLoadBalancerHA               == "inferenceLoadBalancerHA"
SSL_SECRET                            == "sslSecret"
IS_AKS_MIGRATION                      == "isAKSMigration"

\* self.reference_mapping, in the dict's iteration order
reference_mapping ==
    << <<RELAY_SERVER_CONNECTION_STRING, <<RELAY_CONNECTION_STRING_KEY>> >>,
       <<SERVICE_BUS_CONNECTION_STRING, <<SERVICE_BUS_CONNECTION_STRING_KEY>> >>,
       <<"cluster_name", <<"clusterId", "prometheus.prometheusSpec.externalLabels.cluster_name">> >> >>

----------------------------------------------------------------------------
(* the exceptions Create raises *)

NoError              == "none"
InvalidScope         == "InvalidArgumentValueError: Invalid scope"
DuplicateKeys        == "InvalidArgumentValueError: Duplicate keys found."
NeitherEnabled       == "InvalidArgumentValueError: enableTraining=true or enableInference=true"
TlsRequired          == "InvalidArgumentValueError: To enable HTTPs endpoint"
NodeportAndILB       == "MutuallyExclusiveArgumentError: privateEndpointNodeport or privateEndpointILB"
FileError            == "OSError: open"
CloudError           == "CloudError"
RemoteError          == "remote call failed"

ValidationErrors == {DuplicateKeys, NeitherEnabled, TlsRequired, NodeportAndILB}

----------------------------------------------------------------------------
(* the local files the ssl settings name, and base64 *)

\* f.read() of the file at a path
FileContent(path) ==
    CASE path = "cert.pem" -> "CERT"
      [] path = "key.pem"  -> "KEY"
      [] OTHER             -> "DATA"

\* base64.b64encode(data.encode("ascii")).decode()
B64(data) ==
    CASE data = "CERT" -> "Q0VSVA=="
      [] data = "KEY"  -> "S0VZ"
      [] OTHER         -> "REFUQQ=="

----------------------------------------------------------------------------
(* configuration validation of the Create path.  Each operator returns the *)
(* exception raised (or NoError) and the dicts as the call left them.      *)

\* __set_inference_ssl_from_secret
__set_inference_ssl_from_secret(configuration_settings, fe_ssl_secret) ==
    Put(configuration_settings, "scoringFe.sslSecret", fe_ssl_secret)

\* __set_inference_ssl_from_file; files is the set of paths open() can read
__set_inference_ssl_from_file(configuration_protected_settings, fe_ssl_cert_file, fe_ssl_key_file, files) ==
    IF fe_ssl_cert_file \notin files
    THEN [err |-> FileError, cps |-> configuration_protected_settings]
    ELSE LET withCert == Put(configuration_protected_settings, "scoringFe.sslCert",
                             B64(FileContent(fe_ssl_cert_file)))
         IN  IF fe_ssl_key_file \notin files
             THEN [err |-> FileError, cps |-> withCert]
             ELSE [err |-> NoError,
                   cps |-> Put(withCert, "scoringFe.sslKey", B64(FileContent(fe_ssl_key_file)))]

\* a mutant of TlsMissing: the insecure-connections opt-in is ignored
TlsMissing_IgnoresOptIn(sslEnabled, allowInsecure) == ~sslEnabled

\* __validate_scoring_fe_settings: not sslEnabled and not allowInsecureConnections
TlsMissing(sslEnabled, allowInsecure) == ~sslEnabled /\ ~allowInsecure

\* a mutant of BothEndpoints: the conflict is never detected
BothEndpoints_Never(feIsNodePort, feIsInternalLoadBalancer) ==
    feIsNodePort /\ ~feIsNodePort /\ feIsInternalLoadBalancer

\* __validate_scoring_fe_settings: feIsNodePort and feIsInternalLoadBalancer
BothEndpoints(feIsNodePort, feIsInternalLoadBalancer) == feIsNodePort /\ feIsInternalLoadBalancer

\* a mutant of SetClusterPurpose: the purpose is written under the key it was read from
SetClusterPurpose_UnderLoadBalancerHA(configuration_settings, isTestCluster) ==
    Put(configuration_settings, inferenceLoadBalancerHA,
        IF isTestCluster THEN "DevTest" ELSE "FastProd")

\* __validate_scoring_fe_settings: configuration_settings['clusterPurpose'] = ...
SetClusterPurpose(configuration_settings, isTestCluster) ==
    Put(configuration_settings, "clusterPurpose",
        IF isTestCluster THEN "DevTest" ELSE "FastProd")

\* __validate_scoring_fe_settings
__validate_scoring_fe_settings(configuration_settings, configuration_protected_settings) ==
    LET isTestCluster == IsFalseStr(_get_value_from_config_protected_config(
                             inferenceLoadBalancerHA, configuration_settings, configuration_protected_settings))
        c1 == SetClusterPurpose(configuration_settings, isTestCluster)
        isAKSMigration == IsTrueStr(_get_value_from_config_protected_config(
                             IS_AKS_MIGRATION, c1, configuration_protected_settings))
        c2 == IF isAKSMigration
              THEN Put(Put(c1, "scoringFe.namespace", "default"), IS_AKS_MIGRATION, "true")
              ELSE c1
        sslSecret == _get_value_from_config_protected_config(SSL_SECRET, c2, configuration_protected_settings)
        feSslCertFile == Get(configuration_protected_settings, sslCertPemFile)
        feSslKeyFile  == Get(configuration_protected_settings, sslKeyPemFile)
        allowInsecure == IsTrueStr(_get_value_from_config_protected_config(
                             allowInsecureConnections, c2, configuration_protected_settings))
        sslEnabled == (Truthy(feSslCertFile) /\ Truthy(feSslKeyFile)) \/ Truthy(sslSecret)
        feIsNodePort == IsTrueStr(_get_value_from_config_protected_config(
                             privateEndpointNodeport, c2, configuration_protected_settings))
        feIsInternalLoadBalancer == IsTrueStr(_get_value_from_config_protected_config(
                             privateEndpointILB, c2, configuration_protected_settings))
    IN  IF TlsMissing(sslEnabled, allowInsecure)
        THEN [err |-> TlsRequired, cs |-> c2]
        ELSE IF BothEndpoints(feIsNodePort, feIsInternalLoadBalancer)
        THEN [err |-> NodeportAndILB, cs |-> c2]
        ELSE IF feIsNodePort
        THEN [err |-> NoError, cs |-> Put(c2, "scoringFe.serviceType.nodePort", PyTrue)]
        ELSE IF feIsInternalLoadBalancer
        THEN [err |-> NoError, cs |-> Put(c2, "scoringFe.serviceType.internalLoadBalancer", PyTrue)]
        ELSE [err |-> NoError, cs |-> c2]

\* __set_up_inference_ssl
__set_up_inference_ssl(configuration_settings, configuration_protected_settings, files) ==
    LET allowInsecure == IsTrueStr(_get_value_from_config_protected_config(
                             allowInsecureConnections, configuration_settings, configuration_protected_settings))
        fe_ssl_secret == _get_value_from_config_protected_config(
                             SSL_SECRET, configuration_settings, configuration_protected_settings)
        fe_ssl_cert_file == Get(configuration_protected_settings, sslCertPemFile)
        fe_ssl_key_file  == Get(configuration_protected_settings, sslKeyPemFile)
    IN  IF allowInsecure
        THEN [err |-> NoError, cs |-> configuration_settings, cps |-> configuration_protected_settings]
        ELSE IF Truthy(fe_ssl_cert_file) /\ Truthy(fe_ssl_key_file)
        THEN LET r == __set_inference_ssl_from_file(
                          configuration_protected_settings, fe_ssl_cert_file, fe_ssl_key_file, files)
             IN  [err |-> r.err, cs |-> configuration_settings, cps |-> r.cps]
        ELSE [err |-> NoError,
              cs  |-> __set_inference_ssl_from_secret(configuration_settings, fe_ssl_secret),
              cps |-> configuration_protected_settings]

\* a mutant of WriteBackFlags: the flags are left in the protected settings
WriteBackFlags_KeepsProtected(configuration_settings, configuration_protected_settings, enable_training, enable_inference) ==
    LET c1 == Put(configuration_settings, ENABLE_TRAINING,
                  GetOr(configuration_settings, ENABLE_TRAINING, PyBool(enable_training)))
        c2 == Put(c1, ENABLE_INFERENCE, GetOr(c1, ENABLE_INFERENCE, PyBool(enable_inference)))
    IN  [err |-> NoError,
         cs  |-> c2,
         cps |-> configuration_protected_settings]

\* the tail of __validate_config: write the resolved flags back
WriteBackFlags(configuration_settings, configuration_protected_settings, enable_training, enable_inference) ==
    LET c1 == Put(configuration_settings, ENABLE_TRAINING,
                  GetOr(configuration_settings, ENABLE_TRAINING, PyBool(enable_training)))
        c2 == Put(c1, ENABLE_INFERENCE, GetOr(c1, ENABLE_INFERENCE, PyBool(enable_inference)))
    IN  [err |-> NoError,
         cs  |-> c2,
         cps |-> Pop(Pop(configuration_protected_settings, ENABLE_TRAINING), ENABLE_INFERENCE)]

\* a mutant of dup_keys: the two key sets are never compared
dup_keys_Unchecked(configuration_settings, configuration_protected_settings) ==
    (DOMAIN configuration_settings) \cap {}

\* set(config_keys) & set(config_protected_keys)
dup_keys(configuration_settings, configuration_protected_settings) ==
    (DOMAIN configuration_settings) \cap (DOMAIN configuration_protected_settings)

\* a mutant of NoComponent: 'not' applied to the first flag only
NoComponent_NotDistributed(enable_training, enable_inference) ==
    ~enable_training /\ enable_inference

\* __validate_config: not (enable_training or enable_inference)
NoComponent(enable_training, enable_inference) == ~(enable_training \/ enable_inference)

\* __validate_config
__validate_config(configuration_settings, configuration_protected_settings, files) ==
    LET enable_training == IsTrueStr(_get_value_from_config_protected_config(
                               ENABLE_TRAINING, configuration_settings, configuration_protected_settings))
        enable_inference == IsTrueStr(_get_value_from_config_protected_config(
                               ENABLE_INFERENCE, configuration_settings, configuration_protected_settings))
    IN  IF dup_keys(configuration_settings, configuration_protected_settings) # {}
        THEN [err |-> DuplicateKeys, cs |-> configuration_settings, cps |-> configuration_protected_settings]
        ELSE IF enable_inference
        THEN LET fe == __validate_scoring_fe_settings(configuration_settings, configuration_protected_settings)
             IN  IF fe.err # NoError
                 THEN [err |-> fe.err, cs |-> fe.cs, cps |-> configuration_protected_settings]
                 ELSE LET ssl == __set_up_inference_ssl(fe.cs, configuration_protected_settings, files)
                      IN  IF ssl.err # NoError
                          THEN ssl
                          ELSE WriteBackFlags(ssl.cs, ssl.cps, enable_training, enable_inference)
        ELSE IF NoComponent(enable_training, enable_inference)
        THEN [err |-> NeitherEnabled, cs |-> configuration_settings, cps |-> configuration_protected_settings]
        ELSE WriteBackFlags(configuration_settings, configuration_protected_settings,
                            enable_training, enable_inference)

----------------------------------------------------------------------------
(* _dereference *)

\* a mutant of SetDefault: the referenced value is written unconditionally
SetDefault_Overwrites(output_dict, key, ref_value) == Put(output_dict, key, ref_value)

\* output_dict[key] = output_dict.get(key, ref_value)
SetDefault(output_dict, key, ref_value) ==
    Put(output_dict, key, GetOr(output_dict, key, ref_value))

RECURSIVE DerefTargets(_, _, _, _)
\* for key in ref_list, from the i-th key on
DerefTargets(ref_list, i, ref_value, output_dict) ==
    IF i > Len(ref_list) THEN output_dict
    ELSE DerefTargets(ref_list, i + 1, ref_value, SetDefault(output_dict, ref_list[i], ref_value))

RECURSIVE DerefFrom(_, _, _)
\* for ref_key, ref_list in ref_mapping_dict.items(), from the i-th item on
DerefFrom(ref_mapping_dict, i, output_dict) ==
    IF i > Len(ref_mapping_dict) THEN output_dict
    ELSE LET ref_key  == ref_mapping_dict[i][1]
             ref_list == ref_mapping_dict[i][2]
         IN  IF ref_key \notin DOMAIN output_dict
             THEN DerefFrom(ref_mapping_dict, i + 1, output_dict)
             ELSE DerefFrom(ref_mapping_dict, i + 1,
                            DerefTargets(ref_list, 1, output_dict[ref_key], output_dict))

\* _dereference
_dereference(ref_mapping_dict, output_dict) == DerefFrom(ref_mapping_dict, 1, output_dict)

----------------------------------------------------------------------------
(* the arguments of Create: a scope and two dicts of caller-supplied       *)
(* key=value pairs.  An entry is a key, the dict it is passed in and its   *)
(* value.                                                                  *)

MaxValEntries  == 4   \* entries of a call that exercises validation
MaxProvEntries == 2   \* entries added to a valid configuration

Scopes == {"cluster", "namespace", None}

FilePaths == {"cert.pem", "key.pem"}

\* the keys __validate_config reads, and the values a caller passes for them
ValidationKeys ==
    <<ENABLE_TRAINING, ENABLE_INFERENCE, allowInsecureConnections, privateEndpointNodeport,
      privateEndpointILB, inferenceLoadBalancerHA, IS_AKS_MIGRATION, SSL_SECRET,
      sslCertPemFile, sslKeyPemFile>>

\* the keys the later steps of Create read, and the keys they write
ProvisionKeys ==
    <<RELAY_SERVER_CONNECTION_STRING, SERVICE_BUS_CONNECTION_STRING,
      AZURE_LOG_ANALYTICS_CONNECTION_STRING, LOG_ANALYTICS_WS_ENABLED,
      "cluster_name", "domain", "doamin", "location", JOB_SCHEDULER_LOCATION_KEY,
      CLUSTER_NAME_FRIENDLY_KEY, RELAY_CONNECTION_STRING_KEY,
      SERVICE_BUS_CONNECTION_STRING_KEY, "clusterId",
      "prometheus.prometheusSpec.externalLabels.cluster_name">>

ValuesOf(k) ==
    CASE k \in {ENABLE_TRAINING, ENABLE_INFERENCE, allowInsecureConnections,
                privateEndpointNodeport, privateEndpointILB, LOG_ANALYTICS_WS_ENABLED}
                               -> {"True", "false"}
      [] k = inferenceLoadBalancerHA -> {"False"}
      [] k = IS_AKS_MIGRATION  -> {"TRUE"}
      [] k = SSL_SECRET        -> {"", "tls-secret"}
      [] k = sslCertPemFile    -> {"", "cert.pem"}
      [] k = sslKeyPemFile     -> {"", "key.pem"}
      [] k \in {RELAY_SERVER_CONNECTION_STRING, SERVICE_BUS_CONNECTION_STRING,
                AZURE_LOG_ANALYTICS_CONNECTION_STRING}
                               -> {"", "Endpoint=mine"}
      [] OTHER                 -> {"mine"}

Range(q) == {q[i] : i \in 1..Len(q)}

\* configurations that pass validation, to which provisioning entries are added
Preludes ==
    { [cs |-> (ENABLE_TRAINING :> "True"), cps |-> EmptyDict],
      [cs |-> (allowInsecureConnections :> "True"), cps |-> (ENABLE_INFERENCE :> "True")] }

\* d without the keys outside K
Restrict(d, K) == [k \in (DOMAIN d) \cap K |-> d[k]]

\* the position of an entry in the order the entries of a call are listed in
Rank(keys, k, w) == 2 * (CHOOSE i \in 1..Len(keys) : keys[i] = k) + (IF w = "cps" THEN 1 ELSE 0)

\* is (k, w) listed after every entry of the two dicts that is over keys
After(keys, k, w, settings, protected) ==
    /\ \A x \in (DOMAIN settings) \cap Range(keys) : Rank(keys, x, "cs") < Rank(keys, k, w)
    /\ \A x \in (DOMAIN protected) \cap Range(keys) : Rank(keys, x, "cps") < Rank(keys, k, w)

\* the number of entries of the two dicts that are over keys
Entries(keys, settings, protected) ==
    Cardinality((DOMAIN settings) \cap Range(keys)) + Cardinality((DOMAIN protected) \cap Range(keys))

----------------------------------------------------------------------------
(* the remote services *)

\* the formatted cluster_resource_id, and the cluster_name argument
cluster_resource_id == "/subscriptions/sub/resourceGroups/rg/providers/Microsoft.Kubernetes/connectedClusters/arc"
cluster_name        == "arc"

\* resource.location of the cluster
ClusterLocations == {"EastUS"}

\* '{}.cloudapp.azure.com'.format(cluster_location)
DomainOf(cluster_location) ==
    CASE cluster_location = "eastus" -> "eastus.cloudapp.azure.com"
      [] OTHER                       -> "cloudapp.azure.com"

\* s.lower() of a location
LowerLocation(s) ==
    CASE s = "EastUS" -> "eastus"
      [] OTHER        -> s

\* the remote calls of _get_log_analytics_ws_connection_string, in order
LogAnalyticsCalls ==
    <<"loganalytics.workspaces.begin_create_or_update", "loganalytics.shared_keys.get_shared_keys">>

\* the remote calls of _get_relay_connection_str, in order
RelayCalls ==
    <<"relay.namespaces.create_or_update", "relay.hybrid_connections.create_or_update",
      "relay.hybrid_connections.create_or_update_authorization_rule",
      "relay.hybrid_connections.list_keys">>

\* the remote calls of _get_service_bus_connection_string, in order
ServiceBusCalls ==
    <<"servicebus.namespaces.begin_create_or_update",
      "servicebus.topics.create_or_update:computestate",
      "servicebus.subscriptions.create_or_update:computestate",
      "servicebus.topics.create_or_update:jobstate",
      "servicebus.subscriptions.create_or_update:jobstate",
      "servicebus.namespaces.get", "servicebus.namespaces.list_authorization_rules",
      "servicebus.namespaces.list_keys">>

ClusterLookupCall == "resources.get_by_id"

\* what the services return
shared_key                    == "la-primary-shared-key"
ws_costumer_id                == "la-customer-id"
relay_connection_string       == "Endpoint=sb://relay"
hc_resource_id                == "relay-hc-id"
service_bus_connection_string == "Endpoint=sb://servicebus"
service_buse_resource_id      == "servicebus-id"

NoManifest == [returned |-> FALSE]

----------------------------------------------------------------------------
(* the parts of the state a specification does not use stay as they start *)

Uncalled == [state |-> "uncalled"]

ServiceBusIdle ==
    /\ sb_pc = "idle"
    /\ sb_args = [topic_sub_mapping |-> <<>>, get_key_only |-> FALSE]
    /\ sb_trace = <<>>
    /\ sb_op = "none"
    /\ sb_i = 0
    /\ sb_out = Uncalled

NameIdle  == name_in = <<>> /\ name_max = 0 /\ name_out = Uncalled
DerefIdle == deref_in = EmptyDict /\ deref_out = Uncalled
ParseIdle ==
    /\ namespace = [conditions |-> <<>>, actions |-> <<>>, recurrences |-> <<>>]
    /\ last_call = [n |-> 0, flag |-> "", option |-> "", malformed |-> FALSE, outside |-> FALSE]
    /\ parse_err = [kind |-> "none"]
    /\ parsed = <<>>
    /\ group_in = <<>>
    /\ group_out = Uncalled

----------------------------------------------------------------------------
(* Create *)

\* no call of Create is under way
UpdateIdle ==
    /\ upc = "args"
    /\ ucs = EmptyDict
    /\ ucps = EmptyDict
    /\ ucs0 = EmptyDict
    /\ ucps0 = EmptyDict
    /\ yes = FALSE
    /\ prompts = <<>>
    /\ ucalls = <<>>
    /\ uerr = NoError
    /\ patch = NoManifest

CreateIdle ==
    /\ pc = "args"
    /\ scope = ""
    /\ cs = EmptyDict
    /\ cps = EmptyDict
    /\ cs0 = EmptyDict
    /\ cps0 = EmptyDict
    /\ loc = ""
    /\ calls = <<>>
    /\ err = NoError
    /\ manifest = NoManifest

Init == CreateIdle /\ NameIdle /\ DerefIdle /\ ParseIdle /\ UpdateIdle /\ ServiceBusIdle

\* the caller adds key=value to the dict w
AddArg(k, w, v) ==
    /\ cs0' = IF w = "cs" THEN Put(cs0, k, v) ELSE cs0
    /\ cps0' = IF w = "cps" THEN Put(cps0, k, v) ELSE cps0
    /\ cs' = cs0'
    /\ cps' = cps0'
    /\ UNCHANGED <<pc, scope, loc, calls, err, manifest>>
    /\ UNCHANGED <<nameVars, derefVars, parseVars, updateVars, sbVars>>

\* the caller passes one more of the keys the validation reads
AddValidationArg ==
    /\ pc = "args"
    /\ (DOMAIN cs0) \cup (DOMAIN cps0) \subseteq Range(ValidationKeys)
    /\ Entries(ValidationKeys, cs0, cps0) < MaxValEntries
    /\ \E k \in Range(ValidationKeys), w \in {"cs", "cps"} :
         /\ After(ValidationKeys, k, w, cs0, cps0)
         /\ \E v \in ValuesOf(k) : AddArg(k, w, v)

\* the caller passes, with a valid configuration, one more of the other keys
AddProvisionArg ==
    /\ pc = "args"
    /\ [cs  |-> Restrict(cs0, Range(ValidationKeys)),
        cps |-> Restrict(cps0, Range(ValidationKeys))] \in Preludes
    /\ Entries(ProvisionKeys, cs0, cps0) < MaxProvEntries
    /\ \E k \in Range(ProvisionKeys), w \in {"cs", "cps"} :
         /\ After(ProvisionKeys, k, w, cs0, cps0)
         /\ \E v \in ValuesOf(k) : AddArg(k, w, v)

Raise(e) == pc' = "failed" /\ err' = e

\* Create, up to the return of __validate_config; files is the set of paths
\* open() can read
\* a mutant of ScopeRejected: every scope but 'cluster' is rejected
ScopeRejected_NotCluster(s) == s # "cluster"

\* Create: scope == 'namespace'
ScopeRejected(s) == s = "namespace"

CreateValidate ==
    /\ pc = "args"
    /\ \E s \in Scopes, files \in SUBSET FilePaths :
         /\ scope' = s
         /\ IF ScopeRejected(s)
            THEN Raise(InvalidScope) /\ UNCHANGED <<cs, cps>>
            ELSE LET r == __validate_config(cs, cps, files)
                 IN  /\ cs' = r.cs
                     /\ cps' = r.cps
                     /\ IF r.err # NoError THEN Raise(r.err)
                        ELSE pc' = "lookup" /\ err' = err
    /\ UNCHANGED <<cs0, cps0, loc, calls, manifest>>
    /\ UNCHANGED <<nameVars, derefVars, parseVars, updateVars, sbVars>>

\* resources.get_by_id raises CloudError
CreateLookupFails ==
    /\ pc = "lookup"
    /\ calls' = Append(calls, ClusterLookupCall)
    /\ Raise(CloudError)
    /\ UNCHANGED <<scope, cs, cps, cs0, cps0, loc, manifest>>
    /\ UNCHANGED <<nameVars, derefVars, parseVars, updateVars, sbVars>>

\* the generated values of Create
FillDefaults(configuration_settings, cluster_location) ==
    LET c1 == Put(configuration_settings, "cluster_name",
                  GetOr(configuration_settings, "cluster_name", cluster_resource_id))
        c2 == Put(c1, "domain", GetOr(c1, "doamin", DomainOf(cluster_location)))
        c3 == Put(c2, "location", GetOr(c2, "location", cluster_location))
        c4 == Put(c3, JOB_SCHEDULER_LOCATION_KEY,
                  GetOr(c3, JOB_SCHEDULER_LOCATION_KEY, cluster_location))
    IN  Put(c4, CLUSTER_NAME_FRIENDLY_KEY, GetOr(c4, CLUSTER_NAME_FRIENDLY_KEY, cluster_name))

\* resources.get_by_id returns the cluster; the defaults are filled in
CreateLookup ==
    /\ pc = "lookup"
    /\ \E l \in ClusterLocations :
         /\ loc' = LowerLocation(l)
         /\ cs' = FillDefaults(cs, LowerLocation(l))
    /\ calls' = Append(calls, ClusterLookupCall)
    /\ pc' = "log_analytics"
    /\ UNCHANGED <<scope, cps, cs0, cps0, err, manifest>>
    /\ UNCHANGED <<nameVars, derefVars, parseVars, updateVars, sbVars>>

\* a helper raises at its k-th remote call
HelperFails(at, helperCalls) ==
    /\ pc = at
    /\ \E k \in 1..Len(helperCalls) : calls' = calls \o SubSeq(helperCalls, 1, k)
    /\ Raise(RemoteError)
    /\ UNCHANGED <<scope, cs, cps, cs0, cps0, loc, manifest>>
    /\ UNCHANGED <<nameVars, derefVars, parseVars, updateVars, sbVars>>

\* __create_required_resource: is the log analytics workspace to be created
NeedsLogAnalytics(configuration_settings, configuration_protected_settings) ==
    /\ IsTrueStr(GetOr(configuration_settings, LOG_ANALYTICS_WS_ENABLED, PyFalse))
    /\ ~Truthy(Get(configuration_settings, AZURE_LOG_ANALYTICS_CONNECTION_STRING))
    /\ ~Truthy(Get(configuration_protected_settings, AZURE_LOG_ANALYTICS_CONNECTION_STRING))

\* a mutant of NeedsRelay: only the settings dict is consulted
NeedsRelay_SettingsOnly(configuration_settings, configuration_protected_settings) ==
    ~Truthy(Get(configuration_settings, RELAY_SERVER_CONNECTION_STRING))

\* __create_required_resource: is the relay to be created
NeedsRelay(configuration_settings, configuration_protected_settings) ==
    /\ ~Truthy(Get(configuration_settings, RELAY_SERVER_CONNECTION_STRING))
    /\ ~Truthy(Get(configuration_protected_settings, RELAY_SERVER_CONNECTION_STRING))

\* a mutant of NeedsServiceBus: the relay's key is tested in place of the service bus's
NeedsServiceBus_RelayKey(configuration_settings, configuration_protected_settings) ==
    /\ ~Truthy(Get(configuration_settings, RELAY_SERVER_CONNECTION_STRING))
    /\ ~Truthy(Get(configuration_protected_settings, RELAY_SERVER_CONNECTION_STRING))

\* __create_required_resource: is the service bus to be created
NeedsServiceBus(configuration_settings, configuration_protected_settings) ==
    /\ ~Truthy(Get(configuration_settings, SERVICE_BUS_CONNECTION_STRING))
    /\ ~Truthy(Get(configuration_protected_settings, SERVICE_BUS_CONNECTION_STRING))

ProvisionLogAnalytics ==
    /\ pc = "log_analytics"
    /\ NeedsLogAnalytics(cs, cps)
    /\ calls' = calls \o LogAnalyticsCalls
    /\ cs' = Put(Put(cs, AZURE_LOG_ANALYTICS_ENABLED_KEY, PyTrue),
                 AZURE_LOG_ANALYTICS_CUSTOMER_ID_KEY, ws_costumer_id)
    /\ cps' = Put(cps, AZURE_LOG_ANALYTICS_CONNECTION_STRING, shared_key)
    /\ pc' = "relay"
    /\ UNCHANGED <<scope, cs0, cps0, loc, err, manifest>>
    /\ UNCHANGED <<nameVars, derefVars, parseVars, updateVars, sbVars>>

ProvisionLogAnalyticsFails ==
    /\ NeedsLogAnalytics(cs, cps)
    /\ HelperFails("log_analytics", LogAnalyticsCalls)

SkipLogAnalytics ==
    /\ pc = "log_analytics"
    /\ ~NeedsLogAnalytics(cs, cps)
    /\ pc' = "relay"
    /\ UNCHANGED <<scope, cs, cps, cs0, cps0, loc, calls, err, manifest>>
    /\ UNCHANGED <<nameVars, derefVars, parseVars, updateVars, sbVars>>

ProvisionRelay ==
    /\ pc = "relay"
    /\ NeedsRelay(cs, cps)
    /\ calls' = calls \o RelayCalls
    /\ cps' = Put(cps, RELAY_SERVER_CONNECTION_STRING, relay_connection_string)
    /\ cs' = Put(Put(cs, HC_RESOURCE_ID_KEY, hc_resource_id), RELAY_HC_NAME_KEY, cluster_name)
    /\ pc' = "service_bus"
    /\ UNCHANGED <<scope, cs0, cps0, loc, err, manifest>>
    /\ UNCHANGED <<nameVars, derefVars, parseVars, updateVars, sbVars>>

ProvisionRelayFails ==
    /\ NeedsRelay(cs, cps)
    /\ HelperFails("relay", RelayCalls)

SkipRelay ==
    /\ pc = "relay"
    /\ ~NeedsRelay(cs, cps)
    /\ pc' = "service_bus"
    /\ UNCHANGED <<scope, cs, cps, cs0, cps0, loc, calls, err, manifest>>
    /\ UNCHANGED <<nameVars, derefVars, parseVars, updateVars, sbVars>>

ProvisionServiceBus ==
    /\ pc = "service_bus"
    /\ NeedsServiceBus(cs, cps)
    /\ calls' = calls \o ServiceBusCalls
    /\ cps' = Put(cps, SERVICE_BUS_CONNECTION_STRING, service_bus_connection_string)
    /\ cs' = Put(Put(Put(cs, SERVICE_BUS_RESOURCE_ID_KEY, service_buse_resource_id),
                     SERVICE_BUS_COMPUTE_STATE_MAPPING_KEY, SERVICE_BUS_COMPUTE_STATE_SUB),
                 SERVICE_BUS_JOB_STATE_MAPPING_KEY, SERVICE_BUS_JOB_STATE_SUB)
    /\ pc' = "dereference"
    /\ UNCHANGED <<scope, cs0, cps0, loc, err, manifest>>
    /\ UNCHANGED <<nameVars, derefVars, parseVars, updateVars, sbVars>>

ProvisionServiceBusFails ==
    /\ NeedsServiceBus(cs, cps)
    /\ HelperFails("service_bus", ServiceBusCalls)

SkipServiceBus ==
    /\ pc = "service_bus"
    /\ ~NeedsServiceBus(cs, cps)
    /\ pc' = "dereference"
    /\ UNCHANGED <<scope, cs, cps, cs0, cps0, loc, calls, err, manifest>>
    /\ UNCHANGED <<nameVars, derefVars, parseVars, updateVars, sbVars>>

\* the dereference pass, and the Extension Create returns
CreateReturn ==
    /\ pc = "dereference"
    /\ manifest' = [returned |-> TRUE,
                    configuration_settings |-> _dereference(reference_mapping, cs),
                    configuration_protected_settings |-> _dereference(reference_mapping, cps)]
    /\ pc' = "done"
    /\ UNCHANGED <<scope, cs, cps, cs0, cps0, loc, calls, err>>
    /\ UNCHANGED <<nameVars, derefVars, parseVars, updateVars, sbVars>>

Next ==
    \/ AddValidationArg
    \/ AddProvisionArg
    \/ CreateValidate
    \/ CreateLookup
    \/ CreateLookupFails
    \/ ProvisionLogAnalytics
    \/ ProvisionLogAnalyticsFails
    \/ SkipLogAnalytics
    \/ ProvisionRelay
    \/ ProvisionRelayFails
    \/ SkipRelay
    \/ ProvisionServiceBus
    \/ ProvisionServiceBusFails
    \/ SkipServiceBus
    \/ CreateReturn

Spec == Init /\ [][Next]_vars

----------------------------------------------------------------------------
(* _get_valid_name.  A string is a sequence of characters.                 *)

MaxInputLen == 8   \* the longest input_name
MaxMaxLen   == 7   \* the largest max_len

\* suffix_len, as every caller passes it
SUFFIX_LEN == 6

NameChars == {"a", "7", "-"}

\* str.isalnum, on one character
IsAlnum(c) == c \in {"a", "7"}

HexDigits == <<"0", "1", "2", "3", "4", "5", "6", "7", "8", "9", "a", "b", "c", "d", "e", "f">>

CharCode(c) == CASE c = "a" -> 97 [] c = "7" -> 55 [] c = "-" -> 45 [] OTHER -> 63

RECURSIVE Digest(_, _, _)
\* a 24-bit digest of the characters of text from the i-th on, continuing h
Digest(text, i, h) ==
    IF i > Len(text) THEN h
    ELSE Digest(text, i + 1, (h * 31 + CharCode(text[i])) % 16777216)

\* md5(text.encode("utf8")).hexdigest(): 32 hex digits that are a function of
\* the whole text.  hashlib's MD5 is replaced by a 24-bit polynomial digest,
\* whose six hex digits are repeated to the length of an MD5 hex digest.
Md5Hex(text) ==
    LET h == Digest(text, 1, 7)
    IN  [i \in 1..32 |-> HexDigits[((h \div (16 ^ ((i - 1) % 6))) % 16) + 1]]

\* s[:n]
Prefix(s, n) == SubSeq(s, 1, IF n < 0 THEN 0 ELSE IF n > Len(s) THEN Len(s) ELSE n)

\* a mutant of HashedText: the filtered name is hashed
HashedText_Filtered(input_name, normalized_str) == normalized_str

\* the text _get_valid_name hashes: input_name
HashedText(input_name, normalized_str) == input_name

Returned(v) == [state |-> "returned", value |-> v]
Raised(e)   == [state |-> "raised", error |-> e]

\* _get_valid_name
_get_valid_name(input_name, suffix_len, max_len) ==
    LET normalized_str == SelectSeq(input_name, IsAlnum)
        suffix == IF suffix_len > max_len THEN max_len ELSE suffix_len
        md5_suffix == Prefix(Md5Hex(HashedText(input_name, normalized_str)), suffix)
    IN  IF normalized_str = <<>> THEN Raised("AssertionError: normalized name empty")
        ELSE IF Len(normalized_str) <= max_len THEN Returned(normalized_str)
        ELSE Returned(Prefix(normalized_str, max_len - suffix) \o md5_suffix)

InitName ==
    /\ name_in = <<>>
    /\ name_max \in 1..MaxMaxLen
    /\ name_out = Uncalled
    /\ CreateIdle /\ DerefIdle /\ ParseIdle /\ UpdateIdle /\ ServiceBusIdle

\* the caller's input_name grows by a character
NameExtend ==
    /\ name_out = Uncalled
    /\ Len(name_in) < MaxInputLen
    /\ \E c \in NameChars : name_in' = Append(name_in, c)
    /\ UNCHANGED <<name_max, name_out, createVars, derefVars, parseVars, updateVars, sbVars>>

\* _get_valid_name(name_in, suffix_len=6, max_len=name_max)
NameCall ==
    /\ name_out = Uncalled
    /\ name_out' = _get_valid_name(name_in, SUFFIX_LEN, name_max)
    /\ UNCHANGED <<name_in, name_max, createVars, derefVars, parseVars, updateVars, sbVars>>

NextName == NameExtend \/ NameCall

SpecName == InitName /\ [][NextName]_vars

----------------------------------------------------------------------------
(* _dereference(self.reference_mapping, m) *)

\* the reference keys and the target keys of reference_mapping
DerefKeys ==
    <<RELAY_SERVER_CONNECTION_STRING, RELAY_CONNECTION_STRING_KEY,
      SERVICE_BUS_CONNECTION_STRING, SERVICE_BUS_CONNECTION_STRING_KEY,
      "cluster_name", "clusterId", "prometheus.prometheusSpec.externalLabels.cluster_name">>

DerefValues == {"u", "v"}

InitDeref ==
    /\ deref_in = EmptyDict
    /\ deref_out = Uncalled
    /\ CreateIdle /\ NameIdle /\ ParseIdle /\ UpdateIdle /\ ServiceBusIdle

\* the caller's dict gets one more key
DerefAdd ==
    /\ deref_out = Uncalled
    /\ \E i \in 1..Len(DerefKeys), v \in DerefValues :
         /\ \A j \in i..Len(DerefKeys) : DerefKeys[j] \notin DOMAIN deref_in
         /\ deref_in' = Put(deref_in, DerefKeys[i], v)
    /\ UNCHANGED <<deref_out, createVars, nameVars, parseVars, updateVars, sbVars>>

\* _dereference(self.reference_mapping, deref_in)
DerefCall ==
    /\ deref_out = Uncalled
    /\ deref_out' = Returned(_dereference(reference_mapping, deref_in))
    /\ UNCHANGED <<deref_in, createVars, nameVars, parseVars, updateVars, sbVars>>

NextDeref == DerefAdd \/ DerefCall

SpecDeref == InitDeref /\ [][NextDeref]_vars

----------------------------------------------------------------------------
(* alertsmanagement: AddConditions, AddActions, AddRecurrences.  A token   *)
(* is a sequence of atoms: the atom "=" is the character '=', every other  *)
(* atom is a run of characters without '='.                                *)

MaxInvocations == 2   \* occurrences of the three flags on a command line
MaxTokens      == 2   \* tokens of one occurrence

ParseTokens ==
    { <<"field", "=", "x">>, <<"FIELD", "=", "y">>, <<"values", "=", "x">>,
      <<"operator", "=", "x", "=", "y">>, <<"action-type", "=", "x">>,
      <<"start-time", "=", "x">>, <<"end-time">> }

TokenLists == UNION { [1..n -> ParseTokens] : n \in 1..MaxTokens }

\* k.lower(), atom by atom
LowerKey(k) ==
    [i \in 1..Len(k) |->
        CASE k[i] = "FIELD"  -> "field"
          [] k[i] = "Values" -> "values"
          [] OTHER           -> k[i]]

\* the positions of '=' in a token
EqualsAt(x) == {i \in 1..Len(x) : x[i] = "="}

\* a mutant of Split: a token without '=' is a key with an empty value
Split_EmptyValue(x) ==
    IF EqualsAt(x) = {} THEN <<x, <<>>>>
    ELSE LET i == CHOOSE j \in EqualsAt(x) : \A m \in EqualsAt(x) : j <= m
         IN  <<SubSeq(x, 1, i - 1), SubSeq(x, i + 1, Len(x))>>

\* x.split('=', 1): one part if x has no '=', else the parts around the first
Split(x) ==
    IF EqualsAt(x) = {} THEN <<x>>
    ELSE LET i == CHOOSE j \in EqualsAt(x) : \A m \in EqualsAt(x) : j <= m
         IN  <<SubSeq(x, 1, i - 1), SubSeq(x, i + 1, Len(x))>>

\* properties[k].append(v), on the keys in insertion order with their lists
AppendProperty(properties, k, v) ==
    IF \E i \in 1..Len(properties) : properties[i][1] = k
    THEN [i \in 1..Len(properties) |->
            IF properties[i][1] = k
            THEN <<k, Append(properties[i][2], v)>>
            ELSE properties[i]]
    ELSE Append(properties, <<k, <<v>>>>)

RECURSIVE Properties(_, _, _)
\* for (k, v) in (x.split('=', 1) for x in values), from the i-th token on;
\* unpacking one part into (k, v) raises ValueError
Properties(values, i, properties) ==
    IF i > Len(values) THEN [ok |-> TRUE, properties |-> properties]
    ELSE LET parts == Split(values[i])
         IN  IF Len(parts) # 2 THEN [ok |-> FALSE, properties |-> properties]
             ELSE Properties(values, i + 1, AppendProperty(properties, parts[1], parts[2]))

\* the keys of the three parsers: the lowercased key, the entry of d it
\* sets, and whether the entry is the whole list or its first value
ConditionsKeys ==
    { [key |-> <<"field">>, entry |-> "field", list |-> FALSE],
      [key |-> <<"operator">>, entry |-> "operator", list |-> FALSE],
      [key |-> <<"values">>, entry |-> "values", list |-> TRUE] }
ActionsKeys ==
    { [key |-> <<"action-type">>, entry |-> "action_type", list |-> FALSE] }
RecurrencesKeys ==
    { [key |-> <<"recurrence-type">>, entry |-> "recurrence_type", list |-> FALSE],
      [key |-> <<"start-time">>, entry |-> "start_time", list |-> FALSE],
      [key |-> <<"end-time">>, entry |-> "end_time", list |-> FALSE] }

\* a mutant of PossibleKeys: every parser lists the keys of conditions
PossibleKeys_Conditions(parameter) == <<"field", "operator", "values">>

\* the keys the CLIError of a parser lists after 'All possible keys are:'
PossibleKeys(parameter) ==
    CASE parameter = "conditions"  -> <<"field", "operator", "values">>
      [] parameter = "actions"     -> <<"action-type">>
      [] parameter = "recurrences" -> <<"recurrence-type", "start-time", "end-time">>

RECURSIVE Project(_, _, _, _, _)
\* for k in properties, from the i-th key on
Project(keys, parameter, properties, i, d) ==
    IF i > Len(properties) THEN Returned(d)
    ELSE LET k  == properties[i][1]
             v  == properties[i][2]
             kl == LowerKey(k)
         IN  IF \E e \in keys : e.key = kl
             THEN LET e == CHOOSE x \in keys : x.key = kl
                  IN  Project(keys, parameter, properties, i + 1,
                              Put(d, e.entry, IF e.list THEN v ELSE v[1]))
             ELSE Raised([kind |-> "unsupported key", key |-> k, parameter |-> parameter,
                          possible |-> PossibleKeys(parameter)])

\* get_action of the three classes, which differ in their keys
get_action(keys, parameter, values, option_string) ==
    LET p == Properties(values, 1, <<>>)
    IN  IF ~p.ok THEN Raised([kind |-> "usage error", option |-> option_string])
        ELSE Project(keys, parameter, p.properties, 1, EmptyDict)

\* AddConditions.get_action
AddConditions_get_action(values, option_string) ==
    get_action(ConditionsKeys, "conditions", values, option_string)

\* AddActions.get_action
AddActions_get_action(values, option_string) ==
    get_action(ActionsKeys, "actions", values, option_string)

\* AddRecurrences.get_action
AddRecurrences_get_action(values, option_string) ==
    get_action(RecurrencesKeys, "recurrences", values, option_string)

\* a mutant of AppendAction: the record replaces the list, as a store action does
AppendAction_Store(items, action) == <<action>>

\* argparse._AppendAction.__call__: the dest's list, copied, plus the record
AppendAction(items, action) == Append(items, action)

\* the option strings of the three flags
OptionStrings ==
    [conditions |-> "--conditions", actions |-> "--actions", recurrences |-> "--recurrences"]

\* some token has a '=' and, before the first one, a key that lowercased is
\* none of the keys of the parser of flag
KeyOutside(flag, values) ==
    LET permitted == CASE flag = "conditions"  -> {<<"field">>, <<"operator">>, <<"values">>}
                       [] flag = "actions"     -> {<<"action-type">>}
                       [] flag = "recurrences" -> {<<"recurrence-type">>, <<"start-time">>, <<"end-time">>}
    IN  \E i \in 1..Len(values) :
            /\ "=" \in Range(values[i])
            /\ \E n \in 1..Len(values[i]) :
                  /\ values[i][n] = "="
                  /\ "=" \notin Range(SubSeq(values[i], 1, n - 1))
                  /\ LowerKey(SubSeq(values[i], 1, n - 1)) \notin permitted

\* __call__ of the class of flag, with the record or error get_action gave:
\* the namespace, the error and the history after it
Call(flag, values, action) ==
    [last_call |-> [n |-> last_call.n + 1, flag |-> flag, option |-> OptionStrings[flag],
                    malformed |-> \E i \in 1..Len(values) : "=" \notin Range(values[i]),
                    outside |-> KeyOutside(flag, values)],
     parse_err |-> IF action.state = "raised" THEN action.error ELSE [kind |-> "none"],
     namespace |-> IF action.state = "raised" THEN namespace
                   ELSE [namespace EXCEPT ![flag] = AppendAction(@, action.value)],
     parsed    |-> IF action.state = "raised" THEN parsed
                   ELSE Append(parsed, [flag |-> flag, record |-> action.value])]

\* AddConditions.__call__
AddConditions ==
    /\ last_call.n < MaxInvocations
    /\ \E values \in TokenLists :
        LET after == Call("conditions", values,
                          AddConditions_get_action(values, OptionStrings.conditions))
        IN  /\ last_call' = after.last_call
            /\ parse_err' = after.parse_err
            /\ namespace' = after.namespace
            /\ parsed' = after.parsed
    /\ UNCHANGED <<group_in, group_out, createVars, nameVars, derefVars, updateVars, sbVars>>

\* AddActions.__call__
AddActions ==
    /\ last_call.n < MaxInvocations
    /\ \E values \in TokenLists :
        LET after == Call("actions", values,
                          AddActions_get_action(values, OptionStrings.actions))
        IN  /\ last_call' = after.last_call
            /\ parse_err' = after.parse_err
            /\ namespace' = after.namespace
            /\ parsed' = after.parsed
    /\ UNCHANGED <<group_in, group_out, createVars, nameVars, derefVars, updateVars, sbVars>>

\* AddRecurrences.__call__
AddRecurrences ==
    /\ last_call.n < MaxInvocations
    /\ \E values \in TokenLists :
        LET after == Call("recurrences", values,
                          AddRecurrences_get_action(values, OptionStrings.recurrences))
        IN  /\ last_call' = after.last_call
            /\ parse_err' = after.parse_err
            /\ namespace' = after.namespace
            /\ parsed' = after.parsed
    /\ UNCHANGED <<group_in, group_out, createVars, nameVars, derefVars, updateVars, sbVars>>

InitParse == ParseIdle /\ CreateIdle /\ NameIdle /\ DerefIdle /\ UpdateIdle /\ ServiceBusIdle

NextParse == AddConditions \/ AddActions \/ AddRecurrences

SpecParse == InitParse /\ [][NextParse]_vars

----------------------------------------------------------------------------
(* AddConditions.get_action on one token list *)

MaxGroupTokens == 3   \* tokens of the list

GroupTokens ==
    { <<"field", "=", "x">>, <<"FIELD", "=", "y">>, <<"values", "=", "x">>,
      <<"Values", "=", "y">>, <<"values", "=", "z">>, <<"operator", "=", "x", "=", "y">> }

InitGroup == ParseIdle /\ CreateIdle /\ NameIdle /\ DerefIdle /\ UpdateIdle /\ ServiceBusIdle

\* the command line gives the flag one more token
GroupExtend ==
    /\ group_out = Uncalled
    /\ Len(group_in) < MaxGroupTokens
    /\ \E x \in GroupTokens : group_in' = Append(group_in, x)
    /\ UNCHANGED <<group_out, namespace, last_call, parse_err, parsed>>
    /\ UNCHANGED <<createVars, nameVars, derefVars, updateVars, sbVars>>

\* AddConditions.get_action(group_in, '--conditions')
GroupCall ==
    /\ group_out = Uncalled
    /\ group_in # <<>>
    /\ group_out' = AddConditions_get_action(group_in, OptionStrings.conditions)
    /\ UNCHANGED <<group_in, namespace, last_call, parse_err, parsed>>
    /\ UNCHANGED <<createVars, nameVars, derefVars, updateVars, sbVars>>

NextGroup == GroupExtend \/ GroupCall

SpecGroup == InitGroup /\ [][NextGroup]_vars

----------------------------------------------------------------------------
(* Update *)

installNvidiaDevicePlugin == "installNvidiaDevicePlugin"

\* __normalize_config: configuration_settings as the call leaves it
__normalize_config(configuration_settings, configuration_protected_settings) ==
    LET isTestCluster == _get_value_from_config_protected_config(
            inferenceLoadBalancerHA, configuration_settings, configuration_protected_settings)
        c1 == IF isTestCluster = None THEN configuration_settings
              ELSE Put(configuration_settings, "clusterPurpose",
                       IF IsFalseStr(isTestCluster) THEN "DevTest" ELSE "FastProd")
        feIsNodePort == _get_value_from_config_protected_config(
            privateEndpointNodeport, c1, configuration_protected_settings)
        c2 == IF feIsNodePort = None THEN c1
              ELSE Put(c1, "scoringFe.serviceType.nodePort", PyBool(IsTrueStr(feIsNodePort)))
        feIsInternalLoadBalancer == _get_value_from_config_protected_config(
            privateEndpointILB, c2, configuration_protected_settings)
    IN  IF feIsInternalLoadBalancer = None THEN c2
        ELSE Put(c2, "scoringFe.serviceType.internalLoadBalancer",
                 PyBool(IsTrueStr(feIsInternalLoadBalancer)))

\* "nodeSelector" in key, on the keys of the model
ContainsNodeSelector(key) == key \in {"nodeSelector.disktype", "relayserver.nodeSelector.disktype"}

\* _check_nodeselector_existed
_check_nodeselector_existed(configuration_settings, configuration_protected_settings) ==
    \E key \in (DOMAIN configuration_settings) \cup (DOMAIN configuration_protected_settings) :
        ContainsNodeSelector(key)

\* Update: the flags of lines 180-230, from the two dicts
Toggles(configuration_settings, configuration_protected_settings) ==
    LET value(key) == _get_value_from_config_protected_config(
                          key, configuration_settings, configuration_protected_settings)
    IN  [disableTraining |-> value(ENABLE_TRAINING) # None /\ IsFalseStr(value(ENABLE_TRAINING)),
         disableInference |-> value(ENABLE_INFERENCE) # None /\ IsFalseStr(value(ENABLE_INFERENCE)),
         disableNvidiaDevicePlugin |-> /\ value(installNvidiaDevicePlugin) # None
                                       /\ IsFalseStr(value(installNvidiaDevicePlugin)),
         hasAllowInsecureConnections |-> value(allowInsecureConnections) # None,
         hasPrivateEndpointNodeport |-> value(privateEndpointNodeport) # None,
         hasPrivateEndpointILB |-> value(privateEndpointILB) # None,
         hasNodeSelector |-> _check_nodeselector_existed(
                                 configuration_settings, configuration_protected_settings),
         enableLogAnalyticsWS |-> /\ value(LOG_ANALYTICS_WS_ENABLED) # None
                                  /\ IsTrueStr(value(LOG_ANALYTICS_WS_ENABLED))]

\* Update: messageBody, as the lines added to it
messageBody(t) ==
    (IF t.disableTraining THEN <<"enableTraining from True to False,">> ELSE <<>>)
    \o (IF t.disableInference THEN <<"enableInference from True to False,">> ELSE <<>>)
    \o (IF t.disableNvidiaDevicePlugin
        THEN <<"installNvidiaDevicePlugin from True to False if Nvidia GPU is used,">> ELSE <<>>)
    \o (IF t.hasAllowInsecureConnections THEN <<"allowInsecureConnections">> ELSE <<>>)
    \o (IF t.hasPrivateEndpointNodeport THEN <<"privateEndpointNodeport">> ELSE <<>>)
    \o (IF t.hasPrivateEndpointILB THEN <<"privateEndpointILB">> ELSE <<>>)
    \o (IF t.hasNodeSelector
        THEN <<"nodeSelector. Update operation can't remove an existed node selector, but can update or add new ones.">>
        ELSE <<>>)
    \o (IF t.enableLogAnalyticsWS
        THEN <<"To update logAnalyticsWS from False to True, please provide all original configurationProtectedSettings. Otherwise, those settings would be considered obsolete and deleted.">>
        ELSE <<>>)

\* Update: the condition of line 232
ImpactsJobs(t) == t.disableTraining \/ t.disableNvidiaDevicePlugin \/ t.hasNodeSelector

\* Update: the condition of line 235
ImpactsEndpoints(t) ==
    \/ t.disableInference \/ t.disableNvidiaDevicePlugin \/ t.hasAllowInsecureConnections
    \/ t.hasPrivateEndpointNodeport \/ t.hasPrivateEndpointILB \/ t.hasNodeSelector

\* Update: impactScenario
impactScenario(t) ==
    LET jobs == IF ImpactsJobs(t) THEN "jobs" ELSE ""
    IN  IF ImpactsEndpoints(t)
        THEN IF jobs = "" THEN "online endpoints and deployments"
             ELSE jobs \o ", online endpoints and deployments"
        ELSE jobs

\* Update: len(configuration_settings) > 0
ChecksToggles(configuration_settings) == configuration_settings # EmptyDict

\* Update: the messages user_confirmation_factory is called with, in order:
\* the warning with the impact, or the one without, or none
Messages(configuration_settings, configuration_protected_settings) ==
    LET t == Toggles(configuration_settings, configuration_protected_settings)
    IN  IF ~ChecksToggles(configuration_settings) THEN <<>>
        ELSE IF impactScenario(t) # ""
        THEN << [impact |-> impactScenario(t), body |-> messageBody(t)] >>
        ELSE IF t.enableLogAnalyticsWS
        THEN << [impact |-> "", body |-> messageBody(t)] >>
        ELSE <<>>

\* the arguments of Update: the keys its confirmation reads, then the keys
\* its lookups and its last steps read, with the values a caller passes
MaxToggleEntries == 3   \* entries over the keys the confirmation reads
MaxLookupEntries == 2   \* entries over the other keys

ToggleKeys ==
    <<ENABLE_TRAINING, ENABLE_INFERENCE, installNvidiaDevicePlugin, allowInsecureConnections,
      privateEndpointNodeport, privateEndpointILB, "nodeSelector.disktype",
      LOG_ANALYTICS_WS_ENABLED, inferenceLoadBalancerHA>>

LookupKeys ==
    <<AZURE_LOG_ANALYTICS_CONNECTION_STRING, RELAY_SERVER_CONNECTION_STRING,
      SERVICE_BUS_CONNECTION_STRING, sslKeyPemFile, sslCertPemFile, "cluster_name">>

UpdateValuesOf(k) ==
    CASE k \in {ENABLE_TRAINING, ENABLE_INFERENCE} -> {"false", "True"}
      [] k = LOG_ANALYTICS_WS_ENABLED  -> {"TRUE", "false"}
      [] k = installNvidiaDevicePlugin -> {"False"}
      [] k \in {allowInsecureConnections, privateEndpointNodeport} -> {"true"}
      [] k \in {privateEndpointILB, inferenceLoadBalancerHA} -> {"false"}
      [] k = "nodeSelector.disktype"   -> {"ssd"}
      [] k = sslKeyPemFile             -> {"key.pem"}
      [] k = sslCertPemFile            -> {"cert.pem"}
      [] k = "cluster_name"            -> {"mine"}
      [] OTHER                         -> {"Endpoint=mine"}

\* the toggles with which the other keys are passed
UpdatePreludes ==
    { [cs |-> EmptyDict, cps |-> EmptyDict],
      [cs |-> (LOG_ANALYTICS_WS_ENABLED :> "TRUE"), cps |-> EmptyDict] }

\* the files of the working directory
UpdateFilePaths == {"sslCertPemFile", "sslKeyPemFile"}

\* the caller adds key=value to the dict w
UpdateAddArg(k, w, v) ==
    /\ ucs0' = IF w = "cs" THEN Put(ucs0, k, v) ELSE ucs0
    /\ ucps0' = IF w = "cps" THEN Put(ucps0, k, v) ELSE ucps0
    /\ ucs' = ucs0'
    /\ ucps' = ucps0'
    /\ UNCHANGED <<upc, yes, prompts, ucalls, uerr, patch>>
    /\ UNCHANGED <<createVars, nameVars, derefVars, parseVars, sbVars>>

\* the caller passes one more of the keys the confirmation reads
AddToggleArg ==
    /\ upc = "args"
    /\ (DOMAIN ucs0) \cup (DOMAIN ucps0) \subseteq Range(ToggleKeys)
    /\ Entries(ToggleKeys, ucs0, ucps0) < MaxToggleEntries
    /\ \E k \in Range(ToggleKeys), w \in {"cs", "cps"} :
         /\ After(ToggleKeys, k, w, ucs0, ucps0)
         /\ \E v \in UpdateValuesOf(k) : UpdateAddArg(k, w, v)

\* the caller passes one more of the other keys
AddLookupArg ==
    /\ upc = "args"
    /\ [cs  |-> Restrict(ucs0, Range(ToggleKeys)),
        cps |-> Restrict(ucps0, Range(ToggleKeys))] \in UpdatePreludes
    /\ Entries(LookupKeys, ucs0, ucps0) < MaxLookupEntries
    /\ \E k \in Range(LookupKeys), w \in {"cs", "cps"} :
         /\ After(LookupKeys, k, w, ucs0, ucps0)
         /\ \E v \in UpdateValuesOf(k) : UpdateAddArg(k, w, v)

\* the errors of Update
Cancelled          == "CLIError: Operation cancelled."
RelayNotFound      == "ResourceNotFoundError: Relay server not found."
RelayFailed        == "AzureResponseError: Failed to get relay connection string."
ServiceBusNotFound == "ResourceNotFoundError: Service bus not found."
ServiceBusFailed   == "AzureResponseError: Failed to get service bus connection string."

\* ex.response.status_code of a lookup that fails
NOT_FOUND == 404
FailureStatuses == {NOT_FOUND, 500}

\* the response of a lookup that fails, as it stands in the list of calls
Response(status) == IF status = NOT_FOUND THEN "-> 404" ELSE "-> 500"

\* the remote calls of the three helpers with get_key_only=True
LogAnalyticsKeyCalls == SubSeq(LogAnalyticsCalls, 2, 2)
RelayKeyCalls        == SubSeq(RelayCalls, 4, 4)
ServiceBusKeyCalls   == SubSeq(ServiceBusCalls, 6, 8)

\* Update, lines 174-248: the dicts are normalized and user_confirmation_factory
\* is called with each message; with yes, or when the user accepts, it returns
UpdateConfirm ==
    /\ upc = "args"
    /\ ucs' = __normalize_config(ucs, ucps)
    /\ \E y \in BOOLEAN :
         /\ yes' = y
         /\ prompts' = [i \in 1..Len(Messages(ucs', ucps)) |->
                           [yes |-> y, message |-> Messages(ucs', ucps)[i]]]
    /\ upc' = "log_analytics"
    /\ UNCHANGED <<ucps, ucs0, ucps0, ucalls, uerr, patch>>
    /\ UNCHANGED <<createVars, nameVars, derefVars, parseVars, sbVars>>

\* the same, and the user declines: user_confirmation_factory raises
UpdateDeclined ==
    /\ upc = "args"
    /\ ucs' = __normalize_config(ucs, ucps)
    /\ Messages(ucs', ucps) # <<>>
    /\ yes' = FALSE
    /\ prompts' = [i \in 1..Len(Messages(ucs', ucps)) |->
                      [yes |-> FALSE, message |-> Messages(ucs', ucps)[i]]]
    /\ upc' = "failed"
    /\ uerr' = Cancelled
    /\ UNCHANGED <<ucps, ucs0, ucps0, ucalls, patch>>
    /\ UNCHANGED <<createVars, nameVars, derefVars, parseVars, sbVars>>

\* Update: len(configuration_protected_settings) > 0 and key not in it
LooksUp(key, configuration_settings, configuration_protected_settings) ==
    /\ configuration_protected_settings # EmptyDict
    /\ key \notin DOMAIN configuration_protected_settings

\* a step of Update that changes upc and the variables of changed
UpdateStep(from, to) ==
    /\ upc = from
    /\ upc' = to
    /\ UNCHANGED <<ucs, ucs0, ucps0, yes, prompts>>
    /\ UNCHANGED <<createVars, nameVars, derefVars, parseVars, sbVars>>

\* lines 253-258: the shared key is found
UpdateLogAnalyticsKey ==
    /\ LooksUp(AZURE_LOG_ANALYTICS_CONNECTION_STRING, ucs, ucps)
    /\ UpdateStep("log_analytics", "relay")
    /\ ucalls' = ucalls \o LogAnalyticsKeyCalls
    /\ ucps' = Put(ucps, AZURE_LOG_ANALYTICS_CONNECTION_STRING, shared_key)
    /\ UNCHANGED <<uerr, patch>>

\* lines 259-260: HttpResponseError, with any status, is logged
UpdateLogAnalyticsKeyFails ==
    /\ LooksUp(AZURE_LOG_ANALYTICS_CONNECTION_STRING, ucs, ucps)
    /\ UpdateStep("log_analytics", "relay")
    /\ \E status \in FailureStatuses :
         ucalls' = ucalls \o LogAnalyticsKeyCalls \o <<Response(status)>>
    /\ UNCHANGED <<ucps, uerr, patch>>

UpdateSkipLogAnalytics ==
    /\ ~LooksUp(AZURE_LOG_ANALYTICS_CONNECTION_STRING, ucs, ucps)
    /\ UpdateStep("log_analytics", "relay")
    /\ UNCHANGED <<ucps, ucalls, uerr, patch>>

\* lines 262-267
UpdateRelayKey ==
    /\ LooksUp(RELAY_SERVER_CONNECTION_STRING, ucs, ucps)
    /\ UpdateStep("relay", "service_bus")
    /\ ucalls' = ucalls \o RelayKeyCalls
    /\ ucps' = Put(ucps, RELAY_SERVER_CONNECTION_STRING, relay_connection_string)
    /\ UNCHANGED <<uerr, patch>>

\* a mutant of RelayError: a missing relay is logged and left absent
RelayError_NotFoundIgnored(status) == IF status = NOT_FOUND THEN NoError ELSE RelayFailed

\* lines 268-271: the error raised for an ErrorResponseException with status
RelayError(status) == IF status = NOT_FOUND THEN RelayNotFound ELSE RelayFailed

UpdateRelayKeyFails ==
    /\ LooksUp(RELAY_SERVER_CONNECTION_STRING, ucs, ucps)
    /\ \E status \in FailureStatuses :
         /\ uerr' = RelayError(status)
         /\ UpdateStep("relay", IF uerr' = NoError THEN "service_bus" ELSE "failed")
         /\ ucalls' = ucalls \o RelayKeyCalls \o <<Response(status)>>
    /\ UNCHANGED <<ucps, patch>>

UpdateSkipRelay ==
    /\ ~LooksUp(RELAY_SERVER_CONNECTION_STRING, ucs, ucps)
    /\ UpdateStep("relay", "service_bus")
    /\ UNCHANGED <<ucps, ucalls, uerr, patch>>

\* lines 273-278
UpdateServiceBusKey ==
    /\ LooksUp(SERVICE_BUS_CONNECTION_STRING, ucs, ucps)
    /\ UpdateStep("service_bus", "finish")
    /\ ucalls' = ucalls \o ServiceBusKeyCalls
    /\ ucps' = Put(ucps, SERVICE_BUS_CONNECTION_STRING, service_bus_connection_string)
    /\ UNCHANGED <<uerr, patch>>

\* lines 279-282: the error raised for an HttpResponseError with status
ServiceBusError(status) == IF status = NOT_FOUND THEN ServiceBusNotFound ELSE ServiceBusFailed

UpdateServiceBusKeyFails ==
    /\ LooksUp(SERVICE_BUS_CONNECTION_STRING, ucs, ucps)
    /\ UpdateStep("service_bus", "failed")
    /\ \E status \in FailureStatuses, k \in 1..Len(ServiceBusKeyCalls) :
         /\ uerr' = ServiceBusError(status)
         /\ ucalls' = ucalls \o SubSeq(ServiceBusKeyCalls, 1, k) \o <<Response(status)>>
    /\ UNCHANGED <<ucps, patch>>

UpdateSkipServiceBus ==
    /\ ~LooksUp(SERVICE_BUS_CONNECTION_STRING, ucs, ucps)
    /\ UpdateStep("service_bus", "finish")
    /\ UNCHANGED <<ucps, ucalls, uerr, patch>>

\* lines 284-289: the protected settings after the dereference, and whether the
\* ssl files are read
Dereferenced == IF ucps = EmptyDict THEN ucps ELSE _dereference(reference_mapping, ucps)
ReadsSslFiles == {sslKeyPemFile, sslCertPemFile} \subseteq DOMAIN Dereferenced

\* lines 284-295
UpdateReturn ==
    /\ UpdateStep("finish", "done")
    /\ IF ReadsSslFiles
       THEN ucps' = __set_inference_ssl_from_file(
                        Dereferenced, sslCertPemFile, sslKeyPemFile, UpdateFilePaths).cps
       ELSE ucps' = Dereferenced
    /\ patch' = [returned |-> TRUE, configuration_settings |-> ucs,
                 configuration_protected_settings |-> ucps']
    /\ UNCHANGED <<ucalls, uerr>>

\* line 289: a file named by the key is missing, open() raises
UpdateSslFileFails ==
    /\ ReadsSslFiles
    /\ UpdateStep("finish", "failed")
    /\ \E files \in (SUBSET UpdateFilePaths) \ {UpdateFilePaths} :
         LET r == __set_inference_ssl_from_file(Dereferenced, sslCertPemFile, sslKeyPemFile, files)
         IN  ucps' = r.cps /\ uerr' = r.err
    /\ UNCHANGED <<ucalls, patch>>

InitUpdate == UpdateIdle /\ CreateIdle /\ NameIdle /\ DerefIdle /\ ParseIdle /\ ServiceBusIdle

NextUpdate ==
    \/ AddToggleArg
    \/ AddLookupArg
    \/ UpdateConfirm
    \/ UpdateDeclined
    \/ UpdateLogAnalyticsKey
    \/ UpdateLogAnalyticsKeyFails
    \/ UpdateSkipLogAnalytics
    \/ UpdateRelayKey
    \/ UpdateRelayKeyFails
    \/ UpdateSkipRelay
    \/ UpdateServiceBusKey
    \/ UpdateServiceBusKeyFails
    \/ UpdateSkipServiceBus
    \/ UpdateReturn
    \/ UpdateSslFileFails

SpecUpdate == InitUpdate /\ [][NextUpdate]_vars

----------------------------------------------------------------------------
(* _get_service_bus_connection_string, call by call *)

MaxPolls == 3   \* turns of the polling loop
MaxRules == 2   \* authorization rules the namespace lists

\* the items of the topic_sub_mapping Create passes, in the order of the dict
CreateTopicSubMapping ==
    << <<"computestate", SERVICE_BUS_COMPUTE_STATE_SUB>>,
       <<"jobstate", SERVICE_BUS_JOB_STATE_SUB>> >>

\* the topic_sub_mapping arguments: that of Create, its parts, and the {} of Update
TopicSubMappings ==
    { <<>>, CreateTopicSubMapping, SubSeq(CreateTopicSubMapping, 1, 1),
      SubSeq(CreateTopicSubMapping, 2, 2) }

\* the calls on the client, named as in ServiceBusCalls
BeginCreateCall == ServiceBusCalls[1]
TopicCall(item) ==
    IF item[1] = "computestate" THEN ServiceBusCalls[2] ELSE ServiceBusCalls[4]
SubscriptionCall(item) ==
    IF item[1] = "computestate" THEN ServiceBusCalls[3] ELSE ServiceBusCalls[5]
GetNamespaceCall == ServiceBusCalls[6]
ListRulesCall    == ServiceBusCalls[7]
ListKeysCall     == ServiceBusCalls[8]

\* the calls on the poller
PollResult == "async_poller.result(15)"
PollDone(done) == IF done THEN "async_poller.done() -> True" ELSE "async_poller.done() -> False"

\* the turns of the polling loop so far
Polls == Cardinality({i \in 1..Len(sb_trace) : sb_trace[i] = PollResult})

\* a mutant of PollerDone: the poller reports done while the operation runs
PollerDone_WhileRunning(op) == op \in {"running", "succeeded"}

\* async_poller.done(), after a result(15) that did not raise
PollerDone(op) == op = "succeeded"

\* where the loop over topic_sub_mapping goes with i items done
AfterItem(i) == IF i < Len(sb_args.topic_sub_mapping) THEN "topic" ELSE "get"

\* a step of the helper that changes sb_pc, and sb_trace by one call
ServiceBusStep(from, to, call) ==
    /\ sb_pc = from
    /\ sb_pc' = to
    /\ sb_trace' = Append(sb_trace, call)
    /\ UNCHANGED sb_args
    /\ UNCHANGED <<createVars, nameVars, derefVars, parseVars, updateVars>>

\* the helper is called
ServiceBusEnter ==
    /\ sb_pc = "idle"
    /\ \E m \in TopicSubMappings, k \in BOOLEAN :
         /\ sb_args' = [topic_sub_mapping |-> m, get_key_only |-> k]
         /\ sb_pc' = IF k THEN "get" ELSE "begin"
    /\ UNCHANGED <<sb_trace, sb_op, sb_i, sb_out>>
    /\ UNCHANGED <<createVars, nameVars, derefVars, parseVars, updateVars>>

\* lines 565-566
ServiceBusBeginCreate ==
    /\ ServiceBusStep("begin", "result", BeginCreateCall)
    /\ sb_op' = "running"
    /\ UNCHANGED <<sb_i, sb_out>>

\* the service finishes the create-or-update of the namespace
ServiceBusRemoteCompletes ==
    /\ sb_op = "running"
    /\ sb_pc \in {"result", "done"}
    /\ sb_op' = "succeeded"
    /\ UNCHANGED <<sb_pc, sb_args, sb_trace, sb_i, sb_out>>
    /\ UNCHANGED <<createVars, nameVars, derefVars, parseVars, updateVars>>

\* line 568: result(15) returns, with the operation finished or after 15 s
ServiceBusPollResult ==
    /\ Polls < MaxPolls
    /\ ServiceBusStep("result", "done", PollResult)
    /\ UNCHANGED <<sb_op, sb_i, sb_out>>

\* line 568: result(15) raises, the operation has failed
ServiceBusPollRaises ==
    /\ Polls < MaxPolls
    /\ sb_op = "running"
    /\ ServiceBusStep("result", "raised", PollResult)
    /\ sb_op' = "failed"
    /\ sb_out' = Raised(RemoteError)
    /\ UNCHANGED sb_i

\* lines 569-570
ServiceBusPollDone ==
    /\ ServiceBusStep("done", IF PollerDone(sb_op) THEN AfterItem(0) ELSE "result",
                      PollDone(PollerDone(sb_op)))
    /\ UNCHANGED <<sb_op, sb_i, sb_out>>

\* lines 574-576
ServiceBusCreateTopic ==
    /\ ServiceBusStep("topic", "subscription", TopicCall(sb_args.topic_sub_mapping[sb_i + 1]))
    /\ UNCHANGED <<sb_op, sb_i, sb_out>>

\* lines 579-582
ServiceBusCreateSubscription ==
    /\ ServiceBusStep("subscription", AfterItem(sb_i + 1),
                      SubscriptionCall(sb_args.topic_sub_mapping[sb_i + 1]))
    /\ sb_i' = sb_i + 1
    /\ UNCHANGED <<sb_op, sb_out>>

\* lines 584-585
ServiceBusGetNamespace ==
    /\ ServiceBusStep("get", "rules", GetNamespaceCall)
    /\ UNCHANGED <<sb_op, sb_i, sb_out>>

\* lines 588-590: the rules are listed; with none the loop body never runs and
\* the helper returns None
ServiceBusListRules ==
    /\ \E rules \in 0..MaxRules :
         /\ ServiceBusStep("rules", IF rules = 0 THEN "returned" ELSE "keys", ListRulesCall)
         /\ sb_out' = IF rules = 0 THEN Returned(None) ELSE sb_out
    /\ UNCHANGED <<sb_op, sb_i>>

\* lines 591-593: the keys of the first rule
ServiceBusListKeys ==
    /\ ServiceBusStep("keys", "returned", ListKeysCall)
    /\ sb_out' = Returned(<<service_bus_connection_string, service_buse_resource_id>>)
    /\ UNCHANGED <<sb_op, sb_i>>

\* the call the helper is about to make on the client
ServiceBusNextCall ==
    CASE sb_pc = "begin"        -> BeginCreateCall
      [] sb_pc = "topic"        -> TopicCall(sb_args.topic_sub_mapping[sb_i + 1])
      [] sb_pc = "subscription" -> SubscriptionCall(sb_args.topic_sub_mapping[sb_i + 1])
      [] sb_pc = "get"          -> GetNamespaceCall
      [] sb_pc = "rules"        -> ListRulesCall
      [] OTHER                  -> ListKeysCall

\* a call on the client raises
ServiceBusCallRaises ==
    /\ sb_pc \in {"begin", "topic", "subscription", "get", "rules", "keys"}
    /\ ServiceBusStep(sb_pc, "raised", ServiceBusNextCall)
    /\ sb_out' = Raised(RemoteError)
    /\ UNCHANGED <<sb_op, sb_i>>

InitServiceBus ==
    ServiceBusIdle /\ CreateIdle /\ NameIdle /\ DerefIdle /\ ParseIdle /\ UpdateIdle

NextServiceBus ==
    \/ ServiceBusEnter
    \/ ServiceBusBeginCreate
    \/ ServiceBusRemoteCompletes
    \/ ServiceBusPollResult
    \/ ServiceBusPollRaises
    \/ ServiceBusPollDone
    \/ ServiceBusCreateTopic
    \/ ServiceBusCreateSubscription
    \/ ServiceBusGetNamespace
    \/ ServiceBusListRules
    \/ ServiceBusListKeys
    \/ ServiceBusCallRaises

SpecServiceBus == InitServiceBus /\ [][NextServiceBus]_vars

----------------------------------------------------------------------------
(* vocabulary of the properties of Create, over the arguments as passed    *)

\* Create has been called
Called == pc # "args"

\* Create raised e
Failed(e) == pc = "failed" /\ err = e

\* the keys passed in both dicts
SharedKeys == (DOMAIN cs0) \cap (DOMAIN cps0)

\* k was passed, in either dict
Supplied(k) == k \in (DOMAIN cs0) \cup (DOMAIN cps0)

\* the value passed for k, read settings-first, then protected settings
Passed(k) ==
    IF k \in DOMAIN cs0 THEN cs0[k]
    ELSE IF k \in DOMAIN cps0 THEN cps0[k]
    ELSE "<absent>"

TrueStrings == {"true", "True", "TRUE"}

\* the value passed for k lowercases to 'true'
SaysTrue(k) == Passed(k) \in TrueStrings

\* k was passed with a non-empty value in the dict d
NonEmptyIn(d, k) == k \in DOMAIN d /\ d[k] # ""

CallsMade == {calls[i] : i \in 1..Len(calls)}

\* the three auxiliary resources: the key of the connection string, the
\* remote calls of the helper, and the connection string the service returns
Relay      == [key |-> RELAY_SERVER_CONNECTION_STRING, helper |-> RelayCalls,
               string |-> relay_connection_string]
ServiceBus == [key |-> SERVICE_BUS_CONNECTION_STRING, helper |-> ServiceBusCalls,
               string |-> service_bus_connection_string]
LogAnalytics == [key |-> AZURE_LOG_ANALYTICS_CONNECTION_STRING, helper |-> LogAnalyticsCalls,
               string |-> shared_key]

\* the provisioning helper of resource R was invoked
Invoked(R) == CallsMade \cap Range(R.helper) # {}

\* resource R was create-or-updated and its connection string is in the manifest
Provisioned(R) ==
    /\ R.helper[1] \in CallsMade
    /\ R.key \in DOMAIN manifest.configuration_protected_settings
    /\ manifest.configuration_protected_settings[R.key] = R.string

\* the errors of Create's arguments
ArgumentErrors == ValidationErrors \cup {InvalidScope}

----------------------------------------------------------------------------
(* C1 *)

\* C1 as stated: a call whose two dicts share a key fails with the
\* duplicate-key error, and no remote call has been made.
C1_Original ==
    (Called /\ SharedKeys # {}) => (Failed(DuplicateKeys) /\ calls = <<>>)

\* C1, amended: a call whose two dicts share a key fails before any remote
\* call is made: with the invalid-scope error at scope 'namespace', with the
\* duplicate-key error at every other scope.
C1_DuplicateKeysFailFirst ==
    (Called /\ SharedKeys # {}) =>
        /\ calls = <<>>
        /\ Failed(IF scope = "namespace" THEN InvalidScope ELSE DuplicateKeys)

C1_Witness == Failed(DuplicateKeys) /\ SharedKeys # {} /\ scope = "cluster"

----------------------------------------------------------------------------
(* C2 *)

\* C2 as stated: a call in which neither enableTraining nor enableInference
\* reads as true fails with the error naming both flags, and no auxiliary
\* resource is provisioned.
C2_Original ==
    (Called /\ ~SaysTrue(ENABLE_TRAINING) /\ ~SaysTrue(ENABLE_INFERENCE)) =>
        /\ Failed(NeitherEnabled)
        /\ ~Invoked(Relay) /\ ~Invoked(ServiceBus) /\ ~Invoked(LogAnalytics)

\* C2, amended: at a scope other than 'namespace' and with no key passed in
\* both dicts, a call in which neither flag reads as true fails with the
\* error naming both flags, and no auxiliary resource is provisioned.
C2_NeitherFlagFails ==
    (/\ Called /\ scope # "namespace" /\ SharedKeys = {}
     /\ ~SaysTrue(ENABLE_TRAINING) /\ ~SaysTrue(ENABLE_INFERENCE)) =>
        /\ Failed(NeitherEnabled)
        /\ ~Invoked(Relay) /\ ~Invoked(ServiceBus) /\ ~Invoked(LogAnalytics)

C2_Witness ==
    /\ Failed(NeitherEnabled)
    /\ Passed(ENABLE_TRAINING) = "false"
    /\ ENABLE_INFERENCE \in DOMAIN cps0

----------------------------------------------------------------------------
(* C3 *)

\* neither a sslCertPemFile + sslKeyPemFile pair nor a sslSecret was passed
NoTlsMaterial ==
    /\ ~Supplied(SSL_SECRET)
    /\ ~(Supplied(sslCertPemFile) /\ Supplied(sslKeyPemFile))

\* no TLS key has been added to the protected settings
NoTlsKeysAdded ==
    /\ {"scoringFe.sslCert", "scoringFe.sslKey"} \cap DOMAIN cps = {}
    /\ manifest.returned =>
         {"scoringFe.sslCert", "scoringFe.sslKey"}
             \cap DOMAIN manifest.configuration_protected_settings = {}

\* C3 as stated: with inference enabled and no TLS material, Create fails
\* with the TLS error unless allowInsecureConnections=true; with
\* allowInsecureConnections=true validation succeeds and no TLS key is added
\* to the protected settings.
C3_Original ==
    (Called /\ SaysTrue(ENABLE_INFERENCE) /\ NoTlsMaterial) =>
        IF SaysTrue(allowInsecureConnections)
        THEN err \notin ArgumentErrors /\ NoTlsKeysAdded
        ELSE Failed(TlsRequired)

\* C3, amended: the same at a scope other than 'namespace' with no key
\* passed in both dicts; with allowInsecureConnections=true validation
\* succeeds unless privateEndpointNodeport and privateEndpointILB are both
\* true, and no TLS key is added to the protected settings.
C3_TlsRequiredUnlessInsecure ==
    (/\ Called /\ scope # "namespace" /\ SharedKeys = {}
     /\ SaysTrue(ENABLE_INFERENCE) /\ NoTlsMaterial) =>
        IF SaysTrue(allowInsecureConnections)
        THEN /\ NoTlsKeysAdded
             /\ ~(SaysTrue(privateEndpointNodeport) /\ SaysTrue(privateEndpointILB))
                    => err \notin ArgumentErrors
        ELSE Failed(TlsRequired)

C3_Witness ==
    /\ manifest.returned
    /\ SaysTrue(ENABLE_INFERENCE) /\ NoTlsMaterial /\ SaysTrue(allowInsecureConnections)
    /\ Supplied(sslCertPemFile) /\ Supplied(privateEndpointILB)

----------------------------------------------------------------------------
(* C4 *)

\* the TLS requirement of the inference front end is met by the arguments
TlsSatisfied ==
    \/ SaysTrue(allowInsecureConnections)
    \/ Supplied(SSL_SECRET) /\ Passed(SSL_SECRET) # ""
    \/ NonEmptyIn(cps0, sslCertPemFile) /\ NonEmptyIn(cps0, sslKeyPemFile)

\* C4 as stated: every call with privateEndpointNodeport=true and
\* privateEndpointILB=true fails with the mutually-exclusive-argument error,
\* whichever of training and inference is enabled and whatever the TLS
\* settings.
C4_Original ==
    (Called /\ SaysTrue(privateEndpointNodeport) /\ SaysTrue(privateEndpointILB)) =>
        Failed(NodeportAndILB)

\* C4, amended: a call with both set to true fails with the
\* mutually-exclusive-argument error when inference is enabled, the TLS
\* requirement is met (a non-empty certificate and key file pair in the
\* protected settings, a non-empty sslSecret, or
\* allowInsecureConnections=true), the scope is not 'namespace' and no key is
\* passed in both dicts.
C4_NodeportAndIlbExclusive ==
    (/\ Called /\ scope # "namespace" /\ SharedKeys = {}
     /\ SaysTrue(ENABLE_INFERENCE) /\ TlsSatisfied
     /\ SaysTrue(privateEndpointNodeport) /\ SaysTrue(privateEndpointILB)) =>
        Failed(NodeportAndILB)

C4_Witness ==
    /\ Failed(NodeportAndILB)
    /\ SaysTrue(privateEndpointNodeport) /\ SaysTrue(privateEndpointILB)
    /\ ~SaysTrue(allowInsecureConnections)

----------------------------------------------------------------------------
(* C5 *)

\* C5 as stated: a resource whose connection-string key was passed, in
\* either dict and with any value, has its provisioning helper invoked zero
\* times.
C5_Original ==
    \A R \in {Relay, ServiceBus, LogAnalytics} :
        (Called /\ Supplied(R.key)) => ~Invoked(R)

\* C5, amended: a resource whose connection-string key was passed with a
\* non-empty value, in either dict, has its provisioning helper invoked zero
\* times.
C5_SuppliedStringSkipsHelper ==
    \A R \in {Relay, ServiceBus, LogAnalytics} :
        (Called /\ (NonEmptyIn(cs0, R.key) \/ NonEmptyIn(cps0, R.key))) => ~Invoked(R)

C5_Witness ==
    /\ manifest.returned
    /\ NonEmptyIn(cps0, Relay.key)
    /\ ~Invoked(Relay)
    /\ Invoked(ServiceBus)

----------------------------------------------------------------------------
(* C6 *)

\* C6 as stated: in a call that returns a manifest, each of the three
\* resources whose connection-string key was passed in neither dict is
\* create-or-updated, and its connection string is in the manifest.
C6_Original ==
    manifest.returned =>
        \A R \in {Relay, ServiceBus, LogAnalytics} :
            ~Supplied(R.key) => Provisioned(R)

\* C6, amended: that holds of Relay and Service Bus; Log Analytics is
\* provisioned so when, besides, logAnalyticsWS reads as true in the
\* settings dict.
C6_AbsentStringIsProvisioned ==
    manifest.returned =>
        /\ \A R \in {Relay, ServiceBus} : ~Supplied(R.key) => Provisioned(R)
        /\ (/\ ~Supplied(LogAnalytics.key)
            /\ LOG_ANALYTICS_WS_ENABLED \in DOMAIN cs0
            /\ cs0[LOG_ANALYTICS_WS_ENABLED] \in TrueStrings) => Provisioned(LogAnalytics)

C6_Witness ==
    /\ manifest.returned
    /\ Provisioned(Relay) /\ Provisioned(ServiceBus) /\ Provisioned(LogAnalytics)
    /\ \A R \in {Relay, ServiceBus, LogAnalytics} : ~Supplied(R.key)

----------------------------------------------------------------------------
(* C7 *)

\* the alphanumeric characters of the input, in order
Filtered == SelectSeq(name_in, IsAlnum)

\* the first max_len - 6 filtered characters, then the first 6 characters of
\* the hash of the unfiltered input
TruncatedName == Prefix(Filtered, name_max - 6) \o Prefix(Md5Hex(name_in), 6)

\* C7 as stated: a filtered input longer than max_len gives exactly max_len
\* characters, the first max_len - 6 filtered characters followed by the
\* first 6 characters of the hash of the unfiltered input; a filtered input
\* that fits is returned unchanged.
C7_Original ==
    name_out # Uncalled =>
        IF Len(Filtered) > name_max
        THEN /\ name_out.state = "returned"
             /\ Len(name_out.value) = name_max
             /\ name_out.value = TruncatedName
        ELSE name_out = Returned(Filtered)

\* C7, amended: a filtered input longer than max_len gives exactly max_len
\* characters, and for max_len >= 6 these are the first max_len - 6 filtered
\* characters followed by the first 6 characters of the hash of the
\* unfiltered input; a non-empty filtered input that fits is returned
\* unchanged.
C7_ValidName ==
    name_out # Uncalled =>
        IF Len(Filtered) > name_max
        THEN /\ name_out.state = "returned"
             /\ Len(name_out.value) = name_max
             /\ name_max >= 6 => name_out.value = TruncatedName
        ELSE Filtered # <<>> => name_out = Returned(Filtered)

C7_Witness ==
    /\ name_out # Uncalled
    /\ name_max >= 6
    /\ Len(Filtered) > name_max
    /\ Filtered # name_in
    /\ name_out.value # Prefix(Filtered, name_max)

----------------------------------------------------------------------------
(* C8 *)

\* C8: every key of m keeps its value, and a target key absent from m gets
\* the value of its reference key if m has that key and stays absent if not.
C8_DereferenceFillsAbsentOnly ==
    deref_out # Uncalled =>
        /\ \A k \in DOMAIN deref_in :
             k \in DOMAIN deref_out.value /\ deref_out.value[k] = deref_in[k]
        /\ \A i \in 1..Len(reference_mapping) :
             \A t \in Range(reference_mapping[i][2]) :
                t \notin DOMAIN deref_in =>
                    IF reference_mapping[i][1] \in DOMAIN deref_in
                    THEN /\ t \in DOMAIN deref_out.value
                         /\ deref_out.value[t] = deref_in[reference_mapping[i][1]]
                    ELSE t \notin DOMAIN deref_out.value

C8_Witness ==
    /\ deref_out # Uncalled
    /\ {"cluster_name", "clusterId"} \subseteq DOMAIN deref_in
    /\ deref_in["cluster_name"] # deref_in["clusterId"]
    /\ "prometheus.prometheusSpec.externalLabels.cluster_name" \notin DOMAIN deref_in
    /\ "prometheus.prometheusSpec.externalLabels.cluster_name" \in DOMAIN deref_out.value

----------------------------------------------------------------------------
(* C9 *)

\* the records the successful invocations of flag produced, in order
RecordsOf(flag) ==
    LET mine == SelectSeq(parsed, LAMBDA e : e.flag = flag)
    IN  [i \in 1..Len(mine) |-> mine[i].record]

\* s is the sequence t or t with one record appended
KeepsAll(t, s) == Len(s) \in {Len(t), Len(t) + 1} /\ SubSeq(s, 1, Len(t)) = t

\* C9: under each dest the accumulated sequence is the records of the
\* successful invocations of its flag, one each and in invocation order, and
\* an invocation leaves the records already there as they are.
C9_OneRecordPerInvocation ==
    /\ [](\A flag \in DOMAIN namespace : namespace[flag] = RecordsOf(flag))
    /\ [][\A flag \in DOMAIN namespace : KeepsAll(namespace[flag], namespace'[flag])]_vars

C9_Witness ==
    /\ Len(namespace.conditions) = 2
    /\ namespace.conditions[1] # namespace.conditions[2]
    /\ DOMAIN namespace.conditions[1] = {"field", "values"}

----------------------------------------------------------------------------
(* C10 *)

\* C10: an invocation one of whose tokens has no '=' raises the usage error
\* that names the option string, and appends no record.
C10_TokenWithoutEquals ==
    [][last_call'.malformed =>
          /\ parse_err' = [kind |-> "usage error", option |-> OptionStrings[last_call'.flag]]
          /\ namespace' = namespace]_vars

C10_Witness ==
    /\ last_call.malformed
    /\ parse_err.kind = "usage error"
    /\ Len(namespace.recurrences) = 1

----------------------------------------------------------------------------
(* C11 *)

\* the error of a parser for a key outside its keys, listing all of them
ListsPermittedKeys ==
    /\ parse_err.kind = "unsupported key"
    /\ parse_err.possible =
          CASE last_call.flag = "conditions"  -> <<"field", "operator", "values">>
            [] last_call.flag = "actions"     -> <<"action-type">>
            [] last_call.flag = "recurrences" -> <<"recurrence-type", "start-time", "end-time">>

\* C11 as stated: an invocation one of whose tokens has a key outside the
\* keys of the parser raises the error that lists the parser's keys, and
\* appends no record.
C11_Original ==
    [][last_call'.outside =>
          /\ ListsPermittedKeys'
          /\ namespace' = namespace]_vars

\* C11, amended: an invocation all of whose tokens have a '=' and one of
\* whose tokens has a key outside the keys of the parser raises the error
\* that lists the parser's keys; with or without a token lacking '=', it
\* appends no record.
C11_UnsupportedKey ==
    [][last_call'.outside =>
          /\ ~last_call'.malformed => ListsPermittedKeys'
          /\ parse_err'.kind # "none"
          /\ namespace' = namespace]_vars

C11_Witness ==
    /\ last_call.outside
    /\ ~last_call.malformed
    /\ last_call.flag = "recurrences"
    /\ parse_err.kind = "unsupported key"
    /\ Len(namespace.conditions) = 1

----------------------------------------------------------------------------
(* C12 *)

\* the part of a token before its first '=', lowercased, and the part after
KeyPart(x) ==
    LET n == CHOOSE i \in 1..Len(x) : x[i] = "=" /\ \A j \in 1..(i - 1) : x[j] # "="
    IN  LowerKey(SubSeq(x, 1, n - 1))
ValuePart(x) ==
    LET n == CHOOSE i \in 1..Len(x) : x[i] = "=" /\ \A j \in 1..(i - 1) : x[j] # "="
    IN  SubSeq(x, n + 1, Len(x))

\* the values of the tokens of the list whose lowercased key is kl, in order
GroupOf(kl) ==
    LET mine == SelectSeq(group_in, LAMBDA x : KeyPart(x) = kl)
    IN  [i \in 1..Len(mine) |-> ValuePart(mine[i])]

\* C12: the Conditions record of a token list has, for each of field,
\* operator and values, an entry exactly if some token has that key in some
\* letter case; 'values' is the values of all these tokens in token order,
\* and 'field' and 'operator' are the value of the first of them, where the
\* value of a token is all that follows its first '='.
C12_GroupedByLowercasedKey ==
    group_out # Uncalled =>
        /\ group_out.state = "returned"
        /\ DOMAIN group_out.value =
              {kl \in {"field", "operator", "values"} : GroupOf(<<kl>>) # <<>>}
        /\ \A kl \in DOMAIN group_out.value :
              group_out.value[kl] =
                 IF kl = "values" THEN GroupOf(<<kl>>) ELSE GroupOf(<<kl>>)[1]

----------------------------------------------------------------------------
(* C13 *)

\* C13 as stated: at every scope other than 'cluster' Create fails with the
\* invalid-scope error and returns no manifest.
C13_Original ==
    (Called /\ scope # "cluster") => (Failed(InvalidScope) /\ manifest = NoManifest)

\* C13, amended: Create fails with the invalid-scope error exactly at scope
\* 'namespace', and then makes no remote call and returns no manifest.
C13_NamespaceScopeRejected ==
    Called =>
        /\ scope = "namespace" <=> Failed(InvalidScope)
        /\ scope = "namespace" => (manifest = NoManifest /\ calls = <<>>)

C13_Witness ==
    /\ Failed(InvalidScope)
    /\ Passed(ENABLE_TRAINING) = "True"
    /\ SharedKeys = {}

----------------------------------------------------------------------------
(* C14 *)

\* the keys Create generates a value for
DefaultedKeys ==
    {"cluster_name", "domain", "location", "jobSchedulerLocation", "cluster_name_friendly"}

\* C14: in the manifest Create returns, each of the keys it generates a
\* value for has the value the caller passed for it in the settings, if the
\* caller passed one.
C14_CallerValuesWin ==
    manifest.returned =>
        \A k \in DefaultedKeys \cap DOMAIN cs0 :
            /\ k \in DOMAIN manifest.configuration_settings
            /\ manifest.configuration_settings[k] = cs0[k]

----------------------------------------------------------------------------
(* C15 *)

\* C15: in the manifest Create returns, no key is in both the settings and
\* the protected settings.
C15_ManifestKeysDisjoint ==
    manifest.returned =>
        (DOMAIN manifest.configuration_settings)
            \cap (DOMAIN manifest.configuration_protected_settings) = {}

----------------------------------------------------------------------------
(* vocabulary of the properties of Update *)

\* the three resources in Update: the key of the connection string and the
\* remote calls of the key lookup
KeyLookups ==
    { [key |-> AZURE_LOG_ANALYTICS_CONNECTION_STRING,
       calls |-> {"loganalytics.shared_keys.get_shared_keys"}],
      [key |-> RELAY_SERVER_CONNECTION_STRING,
       calls |-> {"relay.hybrid_connections.list_keys"}],
      [key |-> SERVICE_BUS_CONNECTION_STRING,
       calls |-> {"servicebus.namespaces.get", "servicebus.namespaces.list_authorization_rules",
                  "servicebus.namespaces.list_keys"}] }

\* in this step the key lookup of R failed with the response
LookupFailed(R, response) ==
    /\ Len(ucalls') >= Len(ucalls) + 2
    /\ ucalls'[Len(ucalls')] = response
    /\ ucalls'[Len(ucalls') - 1] \in R.calls

\* Update goes on after this step, with the key of R absent
GoesOnWithout(R) ==
    /\ upc' \notin {"failed", "done"}
    /\ uerr' = NoError
    /\ R.key \notin DOMAIN ucps'

\* Update fails in this step
FailsHere == upc' = "failed" /\ uerr' # NoError /\ patch' = NoManifest

----------------------------------------------------------------------------
(* C16 *)

\* C16 as stated: for each of the three resources, when the key lookup
\* answers not found Update goes on with the key left absent, and when it
\* fails otherwise Update fails.
C16_Original ==
    [][\A R \in KeyLookups :
          /\ LookupFailed(R, "-> 404") => GoesOnWithout(R)
          /\ LookupFailed(R, "-> 500") => FailsHere]_vars

\* C16, amended: when the key lookup of Log Analytics fails, not found or
\* otherwise, Update goes on with the key left absent; when the key lookup of
\* Relay or Service Bus answers not found Update fails with the
\* resource-not-found error, and when it fails otherwise Update fails with
\* the response error.
C16_LookupFailures ==
    [][\A R \in KeyLookups :
          IF R.key = AZURE_LOG_ANALYTICS_CONNECTION_STRING
          THEN LookupFailed(R, "-> 404") \/ LookupFailed(R, "-> 500") => GoesOnWithout(R)
          ELSE /\ LookupFailed(R, "-> 404") =>
                    /\ FailsHere
                    /\ uerr' = IF R.key = RELAY_SERVER_CONNECTION_STRING
                               THEN RelayNotFound ELSE ServiceBusNotFound
               /\ LookupFailed(R, "-> 500") =>
                    /\ FailsHere
                    /\ uerr' = IF R.key = RELAY_SERVER_CONNECTION_STRING
                               THEN RelayFailed ELSE ServiceBusFailed]_vars

C16_Witness ==
    /\ Len(ucalls) >= 3
    /\ ucalls[1] = "loganalytics.shared_keys.get_shared_keys"
    /\ ucalls[2] = "-> 404"
    /\ ucalls[Len(ucalls)] = "-> 404"
    /\ ucalls[Len(ucalls) - 1] = "relay.hybrid_connections.list_keys"
    /\ uerr = RelayNotFound
    /\ AZURE_LOG_ANALYTICS_CONNECTION_STRING \notin DOMAIN ucps

----------------------------------------------------------------------------
(* C17 *)

\* the dict d, as passed, has key with a value that lowercases to one of strs
Says(d, key, strs) == key \in DOMAIN d /\ d[key] \in strs

\* a risk toggle is in the dict d as passed
RiskToggleIn(d) ==
    \/ Says(d, "enableTraining", {"false", "False", "FALSE"})
    \/ Says(d, "enableInference", {"false", "False", "FALSE"})
    \/ Says(d, "installNvidiaDevicePlugin", {"false", "False", "FALSE"})
    \/ {"allowInsecureConnections", "privateEndpointNodeport", "privateEndpointILB",
        "nodeSelector.disktype"} \cap DOMAIN d # {}
    \/ Says(d, "logAnalyticsWS", {"true", "True", "TRUE"})

\* C17: once Update is past its confirmation step, and so before any remote
\* lookup and before the patch is returned, if a risk toggle was passed in
\* the settings or in the protected settings then the confirmation was
\* asked, with the yes flag of the call and a warning that is not empty.
C17_ConfirmationBeforeLookups ==
    (upc # "args" /\ (RiskToggleIn(ucs0) \/ RiskToggleIn(ucps0))) =>
        /\ prompts # <<>>
        /\ prompts[1].yes = yes
        /\ prompts[1].message.body # <<>>

----------------------------------------------------------------------------
(* Create: what a validation error leaves behind *)

\* the keys __validate_scoring_fe_settings writes before its two checks
DerivedKeys == {"clusterPurpose", "scoringFe.namespace", IS_AKS_MIGRATION}

\* configuration_settings is as passed in, but for the derived keys
SettingsKeptButDerived ==
    /\ DOMAIN cs \subseteq DOMAIN cs0 \cup DerivedKeys
    /\ \A k \in DOMAIN cs0 \ DerivedKeys : k \in DOMAIN cs /\ cs[k] = cs0[k]

\* C18 as stated: when Create fails with a validation error, both of the
\* caller's dicts are exactly as they were at entry.
C18_Original ==
    \A e \in ValidationErrors : Failed(e) => (cs = cs0 /\ cps = cps0)

\* C18: when Create fails with a validation error, no remote call was made, no
\* extension is returned and the protected settings are as passed in; the
\* settings are as passed in after a duplicate-key or a no-component error, and
\* after a TLS or a nodeport/load-balancer error they differ from the passed
\* ones in clusterPurpose, scoringFe.namespace and isAKSMigration at most.
C18_ValidationErrorLeaves ==
    \A e \in ValidationErrors :
        Failed(e) =>
            /\ calls = <<>>
            /\ manifest = NoManifest
            /\ cps = cps0
            /\ e \in {DuplicateKeys, NeitherEnabled} => cs = cs0
            /\ e \in {TlsRequired, NodeportAndILB} => SettingsKeptButDerived

C18_Witness ==
    /\ Failed(TlsRequired)
    /\ "clusterPurpose" \notin DOMAIN cs0
    /\ "clusterPurpose" \in DOMAIN cs

----------------------------------------------------------------------------
(* Create: the two flags after validation *)

\* Create is past __validate_config and has done nothing else yet
Validated == pc = "lookup"

FlagKeys == {ENABLE_TRAINING, ENABLE_INFERENCE}

\* the flag as __validate_config resolves it from the dicts passed in
ResolvedAtEntry(k) ==
    IsTrueStr(_get_value_from_config_protected_config(k, cs0, cps0))

\* C19 as stated: after a successful validation configuration_settings holds
\* both flags as the resolved booleans and the protected settings hold neither.
C19_Original ==
    Validated =>
        \A k \in FlagKeys :
            /\ k \in DOMAIN cs
            /\ cs[k] = PyBool(ResolvedAtEntry(k))
            /\ k \notin DOMAIN cps

\* C19: after a successful validation configuration_settings holds both flags
\* and the protected settings hold neither; a flag passed in
\* configuration_settings keeps the caller's value, any other flag is the
\* resolved boolean, and in both cases the value lowercases to 'true' exactly
\* when the flag resolved to true.
C19_FlagsWrittenBack ==
    Validated =>
        \A k \in FlagKeys :
            /\ k \in DOMAIN cs
            /\ k \in DOMAIN cs0 => cs[k] = cs0[k]
            /\ k \notin DOMAIN cs0 => cs[k] = PyBool(ResolvedAtEntry(k))
            /\ IsTrueStr(cs[k]) = ResolvedAtEntry(k)
            /\ k \notin DOMAIN cps

C19_Witness ==
    /\ Validated
    /\ \E k \in FlagKeys : k \in DOMAIN cs0 /\ cs[k] \notin {PyTrue, PyFalse}
    /\ \E k \in FlagKeys : k \in DOMAIN cps0 /\ cs[k] \in {PyTrue, PyFalse}

----------------------------------------------------------------------------
(* Update: the workloads the warning names *)

\* the value Update was called with for the key: settings first
Effective(key) ==
    IF key \in DOMAIN ucs0 THEN ucs0[key]
    ELSE IF key \in DOMAIN ucps0 THEN ucps0[key] ELSE None

IsPresent(key) == key \in DOMAIN ucs0 \cup DOMAIN ucps0
TurnedOff(key) == IsPresent(key) /\ Effective(key) \in {"false", "False", "FALSE"}
TurnedOn(key)  == IsPresent(key) /\ Effective(key) \in {"true", "True", "TRUE"}
NodeSelectorPassed == "nodeSelector.disktype" \in DOMAIN ucs0 \cup DOMAIN ucps0

JobsCondition ==
    TurnedOff("enableTraining") \/ TurnedOff("installNvidiaDevicePlugin") \/ NodeSelectorPassed

EndpointsCondition ==
    \/ TurnedOff("enableInference") \/ TurnedOff("installNvidiaDevicePlugin")
    \/ IsPresent("allowInsecureConnections") \/ IsPresent("privateEndpointNodeport")
    \/ IsPresent("privateEndpointILB") \/ NodeSelectorPassed

NamesJobs(message) ==
    message.impact \in {"jobs", "jobs, online endpoints and deployments"}
NamesEndpoints(message) ==
    message.impact \in {"online endpoints and deployments",
                        "jobs, online endpoints and deployments"}

\* the part of C20 about a warning that was asked: it names the jobs exactly
\* when the jobs condition holds and the endpoints exactly when theirs does
C20_CategoriesOfTheWarning ==
    \A i \in 1..Len(prompts) :
        /\ NamesJobs(prompts[i].message) <=> JobsCondition
        /\ NamesEndpoints(prompts[i].message) <=> EndpointsCondition

\* C20: once Update is past its confirmation step, a warning that was asked
\* names the jobs exactly when training or the device plugin is turned off or
\* a node selector is passed, and the online endpoints and deployments exactly
\* when inference or the device plugin is turned off, allowInsecureConnections,
\* privateEndpointNodeport or privateEndpointILB is passed or a node selector
\* is passed; and when neither holds and logAnalyticsWS is turned on, one
\* confirmation that names no workload was asked.
C20_ImpactCategory ==
    upc # "args" =>
        /\ C20_CategoriesOfTheWarning
        /\ (~JobsCondition /\ ~EndpointsCondition /\ TurnedOn("logAnalyticsWS")) =>
               /\ Len(prompts) = 1
               /\ prompts[1].message.impact = ""

----------------------------------------------------------------------------
(* Service Bus provisioning: the order of the calls *)

\* the helper was called to provision, as Create calls it
Provisions == sb_pc # "idle" /\ ~sb_args.get_key_only

\* the positions of the call in the trace
At(call) == {i \in 1..Len(sb_trace) : sb_trace[i] = call}

\* every occurrence of the later call has the earlier call before it
Precedes(earlier, later) ==
    \A i \in At(later) : \E j \in At(earlier) : j < i

MappingItems == Range(sb_args.topic_sub_mapping)
TopicCalls == {TopicCall(item) : item \in MappingItems}
ReadCalls == {GetNamespaceCall, ListRulesCall, ListKeysCall}

\* the helper is past its polling loop
PastPolling ==
    \/ sb_pc \in {"topic", "subscription", "get", "rules", "keys", "returned"}
    \/ \E i \in 1..Len(sb_trace) : sb_trace[i] \in TopicCalls \cup ReadCalls

\* the helper returned the connection string of the first rule
ReturnedKey == sb_pc = "returned" /\ At(ListKeysCall) # {}

IsClientCall(call) == call \in Range(ServiceBusCalls)

\* C21: when the helper provisions the Service Bus, the namespace
\* create-or-update is begun and the poller has reported done before any topic
\* is created, and every earlier turn of the loop reported not done; the topic
\* of each pair is created before its subscription; the topic and the
\* subscription of every pair are created before the namespace is read, its
\* rules are listed and its keys are listed, in that order; and the helper is
\* past the polling loop only if the remote operation has completed and the
\* poller has reported it. With Create's two pairs the calls of a helper that
\* returns a key are, the poller's aside, those of ServiceBusCalls.
C21_ServiceBusCallOrder ==
    Provisions =>
        /\ \A t \in TopicCalls :
               /\ Precedes(PollDone(TRUE), t)
               /\ Precedes(BeginCreateCall, PollDone(TRUE))
        /\ \A i \in At(PollDone(TRUE)) : \A j \in 1..(i - 1) :
               sb_trace[j] \in {BeginCreateCall, PollResult, PollDone(FALSE)}
        /\ \A item \in MappingItems : Precedes(TopicCall(item), SubscriptionCall(item))
        /\ \A item \in MappingItems : \A r \in ReadCalls :
               /\ Precedes(TopicCall(item), r)
               /\ Precedes(SubscriptionCall(item), r)
        /\ Precedes(GetNamespaceCall, ListRulesCall)
        /\ Precedes(ListRulesCall, ListKeysCall)
        /\ PastPolling => (sb_op = "succeeded" /\ At(PollDone(TRUE)) # {})
        /\ (ReturnedKey /\ sb_args.topic_sub_mapping = CreateTopicSubMapping)
               => SelectSeq(sb_trace, IsClientCall) = ServiceBusCalls

C21_Witness ==
    /\ Provisions
    /\ sb_args.topic_sub_mapping = CreateTopicSubMapping
    /\ ReturnedKey
    /\ At(PollDone(FALSE)) # {}

----------------------------------------------------------------------------
(* Update: the ssl files *)

\* C22: when Update returns and both sslKeyPemFile and sslCertPemFile were
\* passed in the protected settings, the patch holds under scoringFe.sslCert
\* and scoringFe.sslKey the base64 encoding of the contents of the files at
\* the paths passed as the values of sslCertPemFile and sslKeyPemFile, the
\* files Create reads for the same settings.
C22_UpdateReadsThePassedFiles ==
    (upc = "done" /\ {sslKeyPemFile, sslCertPemFile} \subseteq DOMAIN ucps0) =>
        LET protected == patch.configuration_protected_settings
        IN  /\ Get(protected, "scoringFe.sslCert") = B64(FileContent(ucps0[sslCertPemFile]))
            /\ Get(protected, "scoringFe.sslKey") = B64(FileContent(ucps0[sslKeyPemFile]))

====
